---- MODULE Spec2Model ----
(***************************************************************************)
(* Node Bridge Invocation Protocol of the gateway: the Pairing Registry,   *)
(* the node connection state machine and the Invocation Router, driven by  *)
(* the `nodes` CLI (src/src/cli/nodes-cli.ts) and by the macOS control     *)
(* handler (ControlRequestHandler.swift).  The gateway side is not part of *)
(* the sources at hand; it is modelled after sections 3-5 of the design    *)
(* document, the callers after their code.                                 *)
(***************************************************************************)
EXTENDS Integers, Sequences, FiniteSets, TLC

\* ------------------------------------------------------------------ bounds
MaxRequests == 2          \* pairing requests ever created (requestId counter cap)
MaxDispatch == 2          \* invocations ever forwarded (correlation id cap)

Nodes     == {"n1", "n2"}
Callers   == {1, 2}
Commands  == {"canvas.eval", "camera.snap"}
UserKeys  == {<<"user", 1>>}
NoKey     == <<"none", 0>>   \* --idempotency-key not given

VARIABLES
    pending,        \* set of PendingPairingRequest [requestId, nodeId, isRepair]
    paired,         \* set of PairedNode [nodeId, token]
    nextRequestId,  \* next fresh requestId
    nodeState,      \* node -> Disconnected | Connecting | PendingApproval | Connected
    nodeToken,      \* node -> pairing token stored on the device (0: none)
    approved,       \* approvals that succeeded (history)
    expired,        \* requestIds removed by TTL expiry (history)
    reply,          \* what the last node.pair.* call returned to the CLI
    invocations,    \* correlation id -> Invocation forwarded over the Bridge
    delivered,      \* envelopes handed to callers by the last step
    settings,       \* Node Runtime: stored on-device settings (UserDefaults)
    calls,          \* Node Runtime: handleInvoke calls in progress
    files,          \* Node Runtime: temporary artifacts on disk
    returned,       \* Node Runtime: the response returned by the last step
    nodeListPayload,  \* control handler: nodes of the gateway's node.list payload
    nodeListResult,   \* control handler: the NodeListResult built from it
    snapshotArgs,     \* canvas snapshot: source image size, maxWidth param, format
    snapshotImage,    \* canvas snapshot: size of the image that gets encoded
    cameraSnap,       \* one run of `nodes camera snap`
    gatewayPrompt,    \* promptGatewayConfig: cfg, the answers, the returned config
    authProfile,      \* applyAuthProfileConfig: cfg, params, the returned configs
    control,          \* ControlRequestHandler.process: one control request
    resolve,          \* resolveNodeId: query, gateway calls, fetched nodes, outcome
    wizard            \* runConfigureWizard: position, choices, config, what it did

registryVars == <<pending, paired, nextRequestId, approved, expired>>
routerVars   == <<invocations>>
gatewayVars == <<pending, paired, nextRequestId, nodeState, nodeToken, approved,
                 expired, reply, invocations, delivered>>
runtimeVars == <<settings, calls, files, returned>>
listVars == <<nodeListPayload, nodeListResult>>
scaleVars == <<snapshotArgs, snapshotImage>>
\* the state of the command-line and configuration tools
toolVars == <<scaleVars, cameraSnap, gatewayPrompt, authProfile, control, resolve,
             wizard>>
baseVars == <<gatewayVars, runtimeVars, listVars>>
exceptScale ==
    <<baseVars, cameraSnap, gatewayPrompt, authProfile, control, resolve, wizard>>
exceptCameraSnap ==
    <<baseVars, scaleVars, gatewayPrompt, authProfile, control, resolve, wizard>>
exceptGatewayPrompt ==
    <<baseVars, scaleVars, cameraSnap, authProfile, control, resolve, wizard>>
exceptAuthProfile ==
    <<baseVars, scaleVars, cameraSnap, gatewayPrompt, control, resolve, wizard>>
exceptResolve ==
    <<baseVars, scaleVars, cameraSnap, gatewayPrompt, authProfile, control, wizard>>
exceptWizard ==
    <<baseVars, scaleVars, cameraSnap, gatewayPrompt, authProfile, control, resolve>>
exceptControl ==
    <<baseVars, scaleVars, cameraSnap, gatewayPrompt, authProfile, resolve, wizard>>
vars == <<pending, paired, nextRequestId, nodeState, nodeToken, approved, expired,
          reply, invocations, delivered, settings, calls, files, returned,
          nodeListPayload, nodeListResult, toolVars>>

\* --------------------------------------------------------------- envelopes
OkEnvelope(corr) == [ok |-> TRUE, code |-> "none", payload |-> corr]
ErrEnvelope(code) == [ok |-> FALSE, code |-> code, payload |-> 0]
NoEnvelope == ErrEnvelope("-")
NoReply == [method |-> "-", requestId |-> 0, result |-> "-", nodeId |-> "-", exit |-> 0]

\* ------------------------------------------------------- Pairing Registry
listPending == pending
listPaired == paired

PendingById(requestId) == {r \in pending : r.requestId = requestId}
PairedByNode(nodeId) == {p \in paired : p.nodeId = nodeId}
\* Variant: the registry is asked whether it holds any record at all.
AnyPairedRecord(nodeId) == paired # {}
HasPairedRecord(nodeId) == PairedByNode(nodeId) # {}

\* Variant: a PairedNode record is taken as proof, whatever token is presented.
ProvesByRecord(nodeId, token) == PairedByNode(nodeId) # {}

\* The device proves its identity: it presents the token of its PairedNode.
ProvesIdentity(nodeId, token) ==
    \E p \in PairedByNode(nodeId) : token # 0 /\ p.token = token

\* approve(requestId): the paired and pending sets after the call.
\* The token is minted fresh (a requestId is approved at most once).
ApprovePaired(req) ==
    {p \in paired : p.nodeId # req.nodeId}
        \cup {[nodeId |-> req.nodeId, token |-> req.requestId]}

\* Variant: approval removes only the approved entry.
ApprovePendingOne(req) == pending \ {req}

\* Approving one request of a device resolves every request of that device.
ApprovePending(req) == {r \in pending : r.nodeId # req.nodeId}

\* Variant: the entry is marked resolved and left in the store.
RejectPendingKeeps(req) == pending
RejectPending(req) == pending \ {req}

\* Variant: any node past the hello counts as connected.
LiveOrPending(nodeId) == nodeState[nodeId] \in {"Connected", "PendingApproval"}
LiveConnection(nodeId) == nodeState[nodeId] = "Connected"
Routable(nodeId) == HasPairedRecord(nodeId) /\ LiveConnection(nodeId)

\* The request a node in PendingApproval waits on: its newest pending request.
AwaitedRequest(nodeId) ==
    {r \in pending : r.nodeId = nodeId /\
        \A q \in pending : q.nodeId = nodeId => q.requestId <= r.requestId}

\* A node in PendingApproval whose awaited request is resolved ends the
\* handshake; when approved it keeps the minted token for its next hello.
AfterResolution(resolved) ==
    [n \in Nodes |->
        IF /\ nodeState[n] = "PendingApproval"
           /\ AwaitedRequest(n) # {}
           /\ AwaitedRequest(n) \subseteq resolved
        THEN "Disconnected"
        ELSE nodeState[n]]

\* ------------------------------------------------------ Invocation Router
Corrs == 1..Len(invocations)
InFlight == {i \in Corrs : invocations[i].phase = "inflight"}
Retained == {i \in Corrs : invocations[i].phase = "retained"}

SameTriple(inv, req) ==
    /\ inv.nodeId = req.nodeId
    /\ inv.command = req.command
    /\ inv.idempotencyKey = req.idempotencyKey

InFlightFor(req) == {i \in InFlight : SameTriple(invocations[i], req)}
RetainedFor(req) == {i \in Retained : SameTriple(invocations[i], req)}
\* Variant: a disconnect sweeps the whole table of in-flight invocations.
InFlightOnAny(nodeId) == InFlight
InFlightOn(nodeId) == {i \in InFlight : invocations[i].nodeId = nodeId}
CallersOf(is) == UNION {invocations[i].callers : i \in is}
Waiting == CallersOf(InFlight)

\* The invocations in `is` are terminated with env: their correlation ids are
\* no longer tracked, the envelope is kept for the retention window.
Terminated(is, env) ==
    [i \in Corrs |->
        IF i \in is
        THEN [invocations[i] EXCEPT !.phase = "retained", !.envelope = env,
                                    !.callers = {}]
        ELSE invocations[i]]
Envelopes(is, env) == {<<c, env>> : c \in CallersOf(is)}

\* Bridge disconnect mid-flight: every in-flight invocation of the node is
\* resolved NodeOffline.
ResolveOffline(nodeId) ==
    /\ invocations' = Terminated(InFlightOn(nodeId), ErrEnvelope("NodeOffline"))
    /\ delivered' = Envelopes(InFlightOn(nodeId), ErrEnvelope("NodeOffline"))

\* --------------------------------------------------------------- the nodes
NodeConnect(n) ==
    /\ nodeState[n] = "Disconnected"
    /\ nodeState' = [nodeState EXCEPT ![n] = "Connecting"]
    /\ reply' = NoReply
    /\ delivered' = {}
    /\ UNCHANGED <<registryVars, nodeToken, routerVars>>
    /\ UNCHANGED <<runtimeVars, listVars, toolVars>>

\* requestPairing(meta), called when the connecting node says hello.
RequestPairing(n) ==
    /\ nodeState[n] = "Connecting"
    /\ IF ProvesIdentity(n, nodeToken[n])
       THEN /\ nodeState' = [nodeState EXCEPT ![n] = "Connected"]
            /\ UNCHANGED <<pending, nextRequestId>>
       ELSE /\ nextRequestId <= MaxRequests
            /\ pending' = pending \cup
                   {[requestId |-> nextRequestId, nodeId |-> n,
                     isRepair |-> HasPairedRecord(n)]}
            /\ nextRequestId' = nextRequestId + 1
            /\ nodeState' = [nodeState EXCEPT ![n] = "PendingApproval"]
    /\ reply' = NoReply
    /\ delivered' = {}
    /\ UNCHANGED <<paired, approved, expired, nodeToken, routerVars>>
    /\ UNCHANGED <<runtimeVars, listVars, toolVars>>

\* The Bridge Transport of the node closes.
TransportClose(n) ==
    /\ nodeState[n] # "Disconnected"
    /\ nodeState' = [nodeState EXCEPT ![n] = "Disconnected"]
    /\ IF nodeState[n] = "Connected"
       THEN ResolveOffline(n)
       ELSE delivered' = {} /\ UNCHANGED routerVars
    /\ reply' = NoReply
    /\ UNCHANGED <<registryVars, nodeToken>>
    /\ UNCHANGED <<runtimeVars, listVars, toolVars>>

\* ---------------------------------------- `nodes approve` / `nodes reject`
\* Variant: the approve action calls the method of the reject action.
ApproveMethodOfReject == "node.pair.reject"
ApproveMethod == "node.pair.approve"
RejectMethod == "node.pair.reject"
ApproveParams(requestId) == [requestId |-> requestId]
RejectParams(requestId) == [requestId |-> requestId]
\* Variant: the catch block reports the error and does not exit(1).
CliReplyNoExit(method, requestId, result, nodeId) ==
    [method |-> method, requestId |-> requestId, result |-> result, nodeId |-> nodeId,
     exit |-> 0]

\* try { log(result) } catch { error(...); exit(1) }
CliReply(method, requestId, result, nodeId) ==
    [method |-> method, requestId |-> requestId, result |-> result, nodeId |-> nodeId,
     exit |-> IF result = "ok" THEN 0 ELSE 1]

\* The gateway serves node.pair.approve: one atomic registry mutation.
Approve(params) ==
    LET found == PendingById(params.requestId) IN
    IF found = {}
    THEN /\ reply' = CliReply("node.pair.approve", params.requestId, "NotFound", "-")
         /\ UNCHANGED <<registryVars, nodeState, nodeToken>>
    ELSE \E req \in found :
         /\ paired' = ApprovePaired(req)
         /\ pending' = ApprovePending(req)
         /\ approved' = approved \cup
                {[requestId |-> req.requestId, nodeId |-> req.nodeId,
                  rivals |-> {r.requestId : r \in {r \in pending \ {req} :
                                                     r.nodeId = req.nodeId}}]}
         /\ nodeToken' = [nodeToken EXCEPT ![req.nodeId] =
                IF nodeState[req.nodeId] = "PendingApproval" THEN req.requestId ELSE @]
         /\ nodeState' = AfterResolution(pending \ ApprovePending(req))
         /\ reply' = CliReply("node.pair.approve", params.requestId, "ok", req.nodeId)
         /\ UNCHANGED <<nextRequestId, expired>>

\* The gateway serves node.pair.reject.
Reject(params) ==
    LET found == PendingById(params.requestId) IN
    IF found = {}
    THEN /\ reply' = CliReply("node.pair.reject", params.requestId, "NotFound", "-")
         /\ UNCHANGED <<registryVars, nodeState, nodeToken>>
    ELSE \E req \in found :
         /\ pending' = RejectPending(req)
         /\ nodeState' = AfterResolution({req})
         /\ reply' = CliReply("node.pair.reject", params.requestId, "ok", "-")
         /\ UNCHANGED <<paired, nextRequestId, approved, expired, nodeToken>>

\* callGateway({method, params}): the gateway's handler of the method.
GatewayCall(method, params) ==
    CASE method = "node.pair.approve" -> Approve(params)
      [] method = "node.pair.reject" -> Reject(params)

\* `clawdis nodes approve <requestId>`
NodesApprove(requestId) ==
    /\ GatewayCall(ApproveMethod, ApproveParams(requestId))
    /\ delivered' = {}
    /\ UNCHANGED routerVars
    /\ UNCHANGED <<runtimeVars, listVars, toolVars>>

\* `clawdis nodes reject <requestId>`
NodesReject(requestId) ==
    /\ GatewayCall(RejectMethod, RejectParams(requestId))
    /\ delivered' = {}
    /\ UNCHANGED routerVars
    /\ UNCHANGED <<runtimeVars, listVars, toolVars>>

\* A pending request reaches its TTL: removed silently, as by reject.
ExpirePending(req) ==
    /\ req \in pending
    /\ pending' = RejectPending(req)
    /\ nodeState' = AfterResolution({req})
    /\ expired' = expired \cup {req.requestId}
    /\ reply' = NoReply
    /\ delivered' = {}
    /\ UNCHANGED <<paired, nextRequestId, approved, nodeToken, routerVars>>
    /\ UNCHANGED <<runtimeVars, listVars, toolVars>>

\* revoke(nodeId): the PairedNode record is deleted, a live connection dropped.
RevokePaired(nodeId) == {p \in paired : p.nodeId # nodeId}
\* Variant: revoke only deletes the record.
RevokeKeepsConnection(nodeId) == FALSE
RevokeDrops(nodeId) == LiveConnection(nodeId)
Revoke(n) ==
    /\ HasPairedRecord(n)
    /\ paired' = RevokePaired(n)
    /\ IF RevokeDrops(n)
       THEN /\ nodeState' = [nodeState EXCEPT ![n] = "Disconnected"]
            /\ ResolveOffline(n)
       ELSE delivered' = {} /\ UNCHANGED <<nodeState, routerVars>>
    /\ reply' = NoReply
    /\ UNCHANGED <<pending, nextRequestId, approved, expired, nodeToken>>
    /\ UNCHANGED <<runtimeVars, listVars, toolVars>>

\* ------------------------------------------------------------ node.invoke
\* randomIdempotencyKey() / UUID().uuidString: a key no earlier call used.
randomIdempotencyKey == <<"uuid", Len(invocations) + 1>>

\* resolveNodeId against node.list (paired or connected nodes).  Queries are
\* full node ids, shorter than the 6 characters a prefix match needs: a query
\* matches the node of that id, and the result is used when it is unique.
KnownNodes == {n \in Nodes : HasPairedRecord(n) \/ LiveConnection(n)}
resolveNodeId(query) == {n \in KnownNodes : n = query}

\* Variant: the --idempotency-key option is ignored.
InvokeParamsFreshKey(nodeId, command, optKey) ==
    [nodeId |-> nodeId, command |-> command, idempotencyKey |-> randomIdempotencyKey]

\* `nodes invoke`: the params of the node.invoke call.
InvokeParams(nodeId, command, optKey) ==
    [nodeId |-> nodeId, command |-> command,
     idempotencyKey |-> IF optKey = NoKey THEN randomIdempotencyKey ELSE optKey]

\* ControlRequestHandler.handleNodeInvoke: always a fresh key.
NodeInvokeParams(nodeId, command) ==
    [nodeId |-> nodeId, command |-> command, idempotencyKey |-> randomIdempotencyKey]

NewInvocation(req, c) ==
    [nodeId |-> req.nodeId, command |-> req.command,
     idempotencyKey |-> req.idempotencyKey, callers |-> {c},
     phase |-> "inflight", envelope |-> NoEnvelope, nodeDone |-> FALSE]

\* What the router finds for the triple of a new call.
AttachTo(req) == InFlightFor(req)
\* Variant: completed invocations are not remembered.
CachedNever(req) == {}
CachedFor(req) == RetainedFor(req)

Answer(c, env) ==
    /\ delivered' = {<<c, env>>}
    /\ UNCHANGED invocations

\* invoke(nodeId, command, params, idempotencyKey, timeoutMs) at the router.
RouterInvoke(c, req) ==
    IF ~HasPairedRecord(req.nodeId) THEN Answer(c, ErrEnvelope("NotPaired"))
    ELSE IF ~LiveConnection(req.nodeId) THEN Answer(c, ErrEnvelope("NodeOffline"))
    ELSE IF AttachTo(req) # {}
    THEN \E i \in AttachTo(req) :
         /\ invocations' = [invocations EXCEPT ![i].callers = @ \cup {c}]
         /\ delivered' = {}
    ELSE IF CachedFor(req) # {}
    THEN \E i \in CachedFor(req) : Answer(c, invocations[i].envelope)
    ELSE /\ Len(invocations) < MaxDispatch
         /\ invocations' = Append(invocations, NewInvocation(req, c))
         /\ delivered' = {}

\* A caller can start a call when it is not blocked in one.  Callers carry no
\* state of their own: the least free caller stands for any of them.
CanCall(c) == c \notin Waiting /\ \A d \in Callers \ Waiting : c <= d

\* `clawdis nodes invoke --node q --command cmd [--idempotency-key k]`
NodesInvoke(c, query, command, optKey) ==
    /\ CanCall(c)
    /\ IF Cardinality(resolveNodeId(query)) = 1
       THEN \E nodeId \in resolveNodeId(query) :
                RouterInvoke(c, InvokeParams(nodeId, command, optKey))
       ELSE Answer(c, ErrEnvelope("unknown node"))
    /\ reply' = NoReply
    /\ UNCHANGED <<registryVars, nodeState, nodeToken>>
    /\ UNCHANGED <<runtimeVars, listVars, toolVars>>

\* The macOS control request nodeInvoke(nodeId, command, paramsJSON).
HandleNodeInvoke(c, nodeId, command) ==
    /\ CanCall(c)
    /\ RouterInvoke(c, NodeInvokeParams(nodeId, command))
    /\ reply' = NoReply
    /\ UNCHANGED <<registryVars, nodeState, nodeToken>>
    /\ UNCHANGED <<runtimeVars, listVars, toolVars>>

\* A response with correlation id i reaches the router: resolved when the id
\* is still tracked, discarded otherwise.
\* Variant: correlation ids are tracked for ever.
TrackedForever(i) == i \in Corrs
Tracked(i) == invocations[i].phase = "inflight"
HandleResponse(i, env) ==
    IF Tracked(i)
    THEN /\ invocations' = [Terminated({i}, env) EXCEPT ![i].nodeDone = TRUE]
         /\ delivered' = Envelopes({i}, env)
    ELSE /\ invocations' = [invocations EXCEPT ![i].nodeDone = TRUE]
         /\ delivered' = {}

\* The node finishes the operation and answers.
NodeComplete(i) ==
    /\ i \in Corrs
    /\ ~invocations[i].nodeDone
    /\ HandleResponse(i, OkEnvelope(i))
    /\ reply' = NoReply
    /\ UNCHANGED <<registryVars, nodeState, nodeToken>>
    /\ UNCHANGED <<runtimeVars, listVars, toolVars>>

\* The router's timer of invocation i expires before a response.
Timeout(i) ==
    /\ i \in InFlight
    /\ invocations' = Terminated({i}, ErrEnvelope("Timeout"))
    /\ delivered' = Envelopes({i}, ErrEnvelope("Timeout"))
    /\ reply' = NoReply
    /\ UNCHANGED <<registryVars, nodeState, nodeToken>>
    /\ UNCHANGED <<runtimeVars, listVars, toolVars>>

\* The retention window of a completed invocation ends.
ExpireRetention(i) ==
    /\ i \in Retained
    /\ invocations' = [invocations EXCEPT ![i].phase = "expired",
                                          ![i].envelope = NoEnvelope]
    /\ delivered' = {}
    /\ reply' = NoReply
    /\ UNCHANGED <<registryVars, nodeState, nodeToken>>
    /\ UNCHANGED <<runtimeVars, listVars, toolVars>>

\* ------------------------------------------ Node Runtime (MacNodeRuntime)
MaxCalls == 2             \* handleInvoke calls in progress at once

\* A command string "namespace.rest" is the pair <<namespace, rest>>.
CanvasShow == <<"canvas", "show">>
CanvasHide == <<"canvas", "hide">>
CanvasNavigate == <<"canvas", "navigate">>
CanvasEvalJS == <<"canvas", "eval">>
CanvasSnapshot == <<"canvas", "snapshot">>
A2UIReset == <<"canvas", "a2ui.reset">>
A2UIPush == <<"canvas", "a2ui.push">>
A2UIPushJSONL == <<"canvas", "a2ui.pushJSONL">>
CameraSnap == <<"camera", "snap">>
CameraClip == <<"camera", "clip">>
ScreenRecord == <<"screen", "record">>
SupportedCommands ==
    {CanvasShow, CanvasHide, CanvasNavigate, CanvasEvalJS, CanvasSnapshot, A2UIReset,
     A2UIPush, A2UIPushJSONL, CameraSnap, CameraClip, ScreenRecord}
UnknownCommands == {<<"canvas", "bogus">>, <<"camera", "bogus">>, <<"bogus", "cmd">>}
RuntimeCommands == SupportedCommands \cup UnknownCommands

\* paramsJSON of a request: nil, not decodable into the command's shape,
\* decodable, decodable with format "mov".
ParamsKinds == {"missing", "malformed", "valid", "validFormatMov"}
CallIds == 1..MaxCalls

\* command.hasPrefix("canvas.") || command.hasPrefix("canvas.a2ui.")
HasCanvasPrefix(command) == command[1] = "canvas"

\* UserDefaults.standard.object(forKey:) as? Bool ?? default
NothingStored == [canvas |-> "unset", camera |-> "unset"]
canvasEnabled == IF settings.canvas = "unset" THEN TRUE ELSE settings.canvas = "true"
cameraEnabled == IF settings.camera = "unset" THEN FALSE ELSE settings.camera = "true"

NoError == [code |-> "none", message |-> "none"]
BridgeInvokeResponse(id, ok, payload, error) ==
    [id |-> id, ok |-> ok, payload |-> payload, error |-> error]
errorResponse(id, code, message) ==
    BridgeInvokeResponse(id, FALSE, "none", [code |-> code, message |-> message])
NoResponse == BridgeInvokeResponse(0, TRUE, "none", NoError)

\* decodeParams: the error it throws ("none": it returns the params).
decodeParams(params) ==
    CASE params = "missing" -> "INVALID_REQUEST: paramsJSON required"
      [] params = "malformed" -> "The data couldn't be read because it is missing."
      [] OTHER -> "none"

\* Commands that decode with `try` (a failure is thrown), and with `try?` (a
\* failure falls back to default params).
DecodeTry == {CanvasNavigate, CanvasEvalJS, A2UIPush, A2UIPushJSONL}
DecodeOptionalTry == {CanvasSnapshot, CameraSnap, CameraClip, ScreenRecord}

\* Variant: the catch block answers with code invalidRequest.
CatchInvalidRequest(id, message) == errorResponse(id, "invalidRequest", message)
\* Variant: an error thrown inside the switch leaves handleInvoke.
Rethrown(id, message) == BridgeInvokeResponse(0, FALSE, "thrown", NoError)

\* catch { return errorResponse(req, code: .unavailable, message: ...) }
CatchResponse(id, message) == errorResponse(id, "unavailable", message)

\* Variant: the canvas gate looks at the supported canvas commands only.
CanvasGateSupported(command) ==
    HasCanvasPrefix(command) /\ command \in SupportedCommands /\ ~canvasEnabled

\* Variant: camera commands are not gated.
CameraGateOff(command) == FALSE

CanvasGate(command) == HasCanvasPrefix(command) /\ ~canvasEnabled
CameraGate(command) == command \in {CameraSnap, CameraClip} /\ ~cameraEnabled

\* handleInvoke up to its first suspension point: the response it returns
\* there, or NoResponse when it goes on to call the capability provider.
EarlyResponse(id, command, params) ==
    IF CanvasGate(command)
    THEN errorResponse(id, "unavailable", "CANVAS_DISABLED: enable Canvas in Settings")
    ELSE IF CameraGate(command)
    THEN errorResponse(id, "unavailable", "CAMERA_DISABLED: enable Camera in Settings")
    ELSE IF command \in DecodeTry /\ decodeParams(params) # "none"
    THEN CatchResponse(id, decodeParams(params))
    ELSE IF command = ScreenRecord /\ params = "validFormatMov"
    THEN errorResponse(id, "invalidRequest", "INVALID_REQUEST: screen format must be mp4")
    ELSE IF command \notin SupportedCommands
    THEN errorResponse(id, "invalidRequest", "INVALID_REQUEST: unknown command")
    ELSE NoResponse

\* Commands whose provider hands back the path of a temporary file.
ArtifactCommands == {CanvasSnapshot, CameraClip, ScreenRecord}
\* The physical resource a capture command uses.
CaptureCommands == {CameraSnap, CameraClip, ScreenRecord}
Resource(command) == command[1]

\* How the awaited provider call can end.
ProviderOutcomes(command) ==
    {"returned"}
        \cup (IF command = CanvasHide THEN {} ELSE {"throws"})
        \cup (IF command = A2UIReset THEN {"notReady"} ELSE {})

\* How the rest of handleInvoke can go once the provider call has ended.
PostOutcomes(c) ==
    IF c.provider = "throws" THEN {"caught"}
    ELSE IF c.provider = "notReady" THEN {"notReady"}
    ELSE {"ok"}
        \cup (IF c.command \in ArtifactCommands THEN {"unreadable"} ELSE {})
        \cup (IF c.command = CanvasSnapshot THEN {"decodeFails"} ELSE {})
        \cup (IF c.command \in {CanvasEvalJS, CanvasSnapshot, CameraSnap, CameraClip,
                                ScreenRecord, A2UIPush, A2UIPushJSONL}
              THEN {"encodeFails"} ELSE {})

Payload(command) ==
    IF command \in {CanvasShow, CanvasHide, CanvasNavigate} THEN "none" ELSE "json"

LateResponse(c, post) ==
    CASE post = "ok" -> BridgeInvokeResponse(c.id, TRUE, Payload(c.command), NoError)
      [] post = "decodeFails" ->
            errorResponse(c.id, "unavailable", "canvas snapshot decode failed")
      [] post = "notReady" -> errorResponse(c.id, "unavailable", "A2UI not ready")
      [] OTHER -> CatchResponse(c.id, post)

\* Variant: the artifact is removed after the payload has been encoded.
RemoveAfterEncode(path, post) == IF post = "ok" THEN files \ {path} ELSE files

\* defer { try? FileManager.default.removeItem(atPath: path) }
RemoveItem(path, post) == files \ {path}

TempPath(id) == id
CallOf(id) == {c \in calls : c.id = id}
Capturing(resource) ==
    {c \in calls : c.pc = "provider" /\ c.command \in CaptureCommands
                    /\ Resource(c.command) = resource}

\* handleInvoke(req) runs on the actor until it returns or awaits the provider.
HandleInvoke(id, command, params) ==
    /\ CallOf(id) = {}
    /\ Cardinality(calls) < MaxCalls
    /\ IF EarlyResponse(id, command, params) # NoResponse
       THEN /\ returned' = EarlyResponse(id, command, params)
            /\ calls' = calls
       ELSE /\ returned' = NoResponse
            /\ calls' = calls \cup
                   {[id |-> id, command |-> command, pc |-> "provider",
                     provider |-> "running", path |-> 0]}
    /\ UNCHANGED <<settings, files, gatewayVars, listVars, toolVars>>

\* The capability provider finishes; a capture leaves its temporary file.
ProviderReturns(id, out) ==
    \E c \in CallOf(id) :
        /\ c.pc = "provider"
        /\ out \in ProviderOutcomes(c.command)
        /\ LET path == IF out = "returned" /\ c.command \in ArtifactCommands
                       THEN TempPath(id) ELSE 0
           IN  /\ calls' = (calls \ {c}) \cup
                       {[c EXCEPT !.pc = "resumed", !.provider = out, !.path = path]}
               /\ files' = IF path # 0 THEN files \cup {path} ELSE files
        /\ returned' = NoResponse
        /\ UNCHANGED <<settings, gatewayVars, listVars, toolVars>>

\* handleInvoke resumes on the actor and runs to its return.
HandleInvokeResume(id, post) ==
    \E c \in CallOf(id) :
        /\ c.pc = "resumed"
        /\ post \in PostOutcomes(c)
        /\ returned' = LateResponse(c, post)
        /\ files' = IF c.path # 0 THEN RemoveItem(c.path, post) ELSE files
        /\ calls' = calls \ {c}
        /\ UNCHANGED <<settings, gatewayVars, listVars, toolVars>>

\* The user changes a setting on the device.
SetSetting(key, value) ==
    /\ settings[key] # value
    /\ settings' = [settings EXCEPT ![key] = value]
    /\ returned' = NoResponse
    /\ UNCHANGED <<calls, files, gatewayVars, listVars, toolVars>>

\* --------------------------------------------------------------- node list
\* buildNodeListResult of the macOS control handler.  Strings are sequences
\* of characters, compared as Swift compares them: by Unicode scalar value,
\* character by character, a proper prefix first.  An optional is the empty
\* set (nil) or a singleton.
UnicodeScalar ==
    ("1" :> 49) @@ ("2" :> 50) @@ ("3" :> 51) @@ ("A" :> 65) @@
    ("b" :> 98) @@ ("c" :> 99) @@ ("n" :> 110)
StringLess(s, t) ==
    \E i \in 1..(Len(s) + 1) :
        /\ i <= Len(t)
        /\ \A j \in 1..(i - 1) : s[j] = t[j]
        /\ (i = Len(s) + 1 \/ UnicodeScalar[s[i]] < UnicodeScalar[t[i]])

Nil == {}
Some(x) == {x}
Coalesce(optional, default) ==
    IF optional = Nil THEN default ELSE CHOOSE x \in optional : TRUE

NodeIds == {<<"n", "1">>, <<"n", "2">>, <<"n", "3">>}
DisplayNames == {<<"A">>, <<"b">>, <<"c">>}
\* connected / paired as the gateway reports them
ReportedFlags ==
    {<<Some(TRUE), Some(TRUE)>>, <<Some(TRUE), Nil>>,
     <<Some(FALSE), Some(TRUE)>>, <<Nil, Some(FALSE)>>}
GatewayNodes ==
    {[nodeId |-> id, displayName |-> name, connected |-> f[1], paired |-> f[2]] :
        id \in NodeIds, name \in {Nil} \cup {Some(d) : d \in DisplayNames},
        f \in ReportedFlags}
\* payload.nodes: every node of the gateway listed once, in any order
Payloads ==
    {p \in UNION {[1..k -> GatewayNodes] : k \in 0..Cardinality(NodeIds)} :
        \A i, j \in 1..Len(p) : p[i].nodeId = p[j].nodeId => i = j}

NodeListNode(n) ==
    [nodeId |-> n.nodeId,
     displayName |-> n.displayName,
     connected |-> (n.connected = Some(TRUE)),
     paired |-> (n.paired = Some(TRUE))]

Range(seq) == {seq[i] : i \in 1..Len(seq)}
Rearrangements(seq) == {q \in [1..Len(seq) -> Range(seq)] : Range(q) = Range(seq)}

SortKey(a) == Coalesce(a.displayName, a.nodeId)
\* nodes.sorted { a, b in key(a) < key(b) }: the standard library does not
\* promise an order for elements that compare equal, so every rearrangement
\* in which no element is less than an earlier one is a possible outcome.
SortedByKey(nodes) ==
    {q \in Rearrangements(nodes) :
        \A i, j \in 1..Len(q) : i < j => ~StringLess(SortKey(q[j]), SortKey(q[i]))}

\* Variant: the id lists keep the order of the sorted nodes.
IdsInNodeOrder(ids) == ids

\* ids.sorted() on distinct ids
SortedIds(ids) ==
    CHOOSE q \in Rearrangements(ids) :
        \A i, j \in 1..Len(q) : i < j => ~StringLess(q[j], q[i])

IsPaired(a) == a.paired
IsConnected(a) == a.connected
NodeIdsOf(nodes) == [i \in 1..Len(nodes) |-> nodes[i].nodeId]
NodeListResult(ts, connectedNodeIds, pairedNodeIds, nodes) ==
    [ts |-> ts,
     connectedNodeIds |-> connectedNodeIds,
     pairedNodeIds |-> pairedNodeIds,
     nodes |-> nodes]
\* nothing built yet; a built result carries a timestamp
NoResult == NodeListResult("none", <<>>, <<>>, <<>>)

BuildNodeListResult ==
    /\ nodeListResult = NoResult
    /\ LET nodes == [i \in 1..Len(nodeListPayload) |-> NodeListNode(nodeListPayload[i])]
       IN  \E sorted \in SortedByKey(nodes) :
               nodeListResult' = NodeListResult(
                             "now",
                             SortedIds(NodeIdsOf(SelectSeq(sorted, IsConnected))),
                             SortedIds(NodeIdsOf(SelectSeq(sorted, IsPaired))),
                             sorted)
    /\ UNCHANGED <<nodeListPayload, gatewayVars, runtimeVars, toolVars>>

\* ---------------------------------------------------------- image scaling
\* scaleImage and the maxWidth default of canvas.snapshot.  Image sizes are
\* CGFloat in the source; here the width is an integer and the height an
\* exact fraction <<numerator, denominator>> kept in lowest terms, so that
\* height * scale is computed without rounding.
Rat(n, d) == <<n, d>>
RECURSIVE GCD(_, _)
GCD(a, b) == IF b = 0 THEN a ELSE GCD(b, a % b)
Lowest(a) == LET g == GCD(a[1], a[2]) IN IF g = 0 THEN a ELSE Rat(a[1] \div g, a[2] \div g)
RatTimes(a, b) == Lowest(Rat(a[1] * b[1], a[2] * b[2]))
RatEq(a, b) == a[1] * b[2] = b[1] * a[2]

NSSize(width, height) == [width |-> width, height |-> height]
SourceWidths == {0, 3, 500, 1000, 2000}
SourceHeights == {2, 800}
MaxWidthParams == {Nil, Some(-1), Some(0), Some(2), Some(3), Some(500), Some(1000)}
SnapshotFormats == {"png", "jpeg"}
SnapshotInputs ==
    [image : {NSSize(w, Rat(h, 1)) : w \in SourceWidths, h \in SourceHeights},
     maxWidth : MaxWidthParams,
     format : SnapshotFormats]

Unwrap(optional) == CHOOSE x \in optional : TRUE

\* Variant: scales whenever a positive maxWidth is given.
scaleImageAlways(image, maxWidth) ==
    IF maxWidth = Nil \/ ~(Unwrap(maxWidth) > 0) THEN image
    ELSE IF ~(image.width > 0) THEN image
    ELSE NSSize(Unwrap(maxWidth),
                RatTimes(image.height, Rat(Unwrap(maxWidth), image.width)))

scaleImage(image, maxWidth) ==
    IF maxWidth = Nil \/ ~(Unwrap(maxWidth) > 0) THEN image
    ELSE IF ~(image.width > 0 /\ image.width > Unwrap(maxWidth)) THEN image
    ELSE LET scale == Rat(Unwrap(maxWidth), image.width)
         IN  NSSize(Unwrap(maxWidth), RatTimes(image.height, scale))

\* canvas.snapshot: params.maxWidth when positive, else the format's default
SnapshotMaxWidth(raw, format) ==
    IF raw # Nil /\ Unwrap(raw) > 0 THEN raw
    ELSE IF format = "png" THEN Some(900) ELSE Some(1600)

NoImage == [by |-> "none", size |-> NSSize(0, Rat(0, 1))]

ScaleImage ==
    /\ snapshotImage = NoImage
    /\ snapshotImage' =
           [by |-> "scaleImage",
            size |-> scaleImage(snapshotArgs.image, snapshotArgs.maxWidth)]
    /\ UNCHANGED <<snapshotArgs, exceptScale>>

EncodeCanvasSnapshot ==
    /\ snapshotImage = NoImage
    /\ snapshotImage' =
           [by |-> "canvas.snapshot",
            size |-> scaleImage(snapshotArgs.image,
                                SnapshotMaxWidth(snapshotArgs.maxWidth,
                                                 snapshotArgs.format))]
    /\ UNCHANGED <<snapshotArgs, exceptScale>>

ScaleIdle ==
    /\ snapshotArgs = [image |-> NSSize(0, Rat(0, 1)), maxWidth |-> Nil, format |-> "jpeg"]
    /\ snapshotImage = NoImage

\* ------------------------------------------------------ nodes camera snap
\* `clawdis nodes camera snap`: one node.invoke of camera.snap per facing,
\* each awaited before the next; any throw ends the run in the catch block.
FacingOptions == {"unset", "both", "front", "back", "Both", "up"}
\* String(opts.facing ?? "both").trim().toLowerCase()
FacingOpt(option) ==
    CASE option = "unset" -> "both"
      [] option = "Both" -> "both"
      [] OTHER -> option
Facings(facingOpt) ==
    CASE facingOpt = "both" -> <<"front", "back">>
      [] facingOpt \in {"front", "back"} -> <<facingOpt>>
      [] OTHER -> <<>>
InvalidFacing(facingOpt) == facingOpt \notin {"both", "front", "back"}

\* what one awaited iteration of the loop can do
SnapOutcomes == {"ok", "gatewayError", "invalidPayload", "writeFailed"}

NotStarted ==
    [pc |-> "idle", option |-> "unset", json |-> FALSE, facings |-> <<>>,
     issued |-> <<>>, results |-> <<>>, log |-> <<>>, exit |-> 0]

\* randomIdempotencyKey(): a key no earlier invocation of the run carries
SnapIdempotencyKey(run) == <<"uuid", Len(run.issued) + 1>>

\* Variant: a failed iteration is skipped and the loop goes on.
SnapSkipsFailure(run, outcome) ==
    [run EXCEPT !.pc = "loop", !.facings = Tail(@),
                !.issued[Len(run.issued)].outcome = outcome]

\* catch (err) { error(`nodes camera snap failed: ...`); exit(1) }
SnapCatch(run, outcome) ==
    [run EXCEPT !.pc = "failed", !.exit = 1,
                !.log = Append(@, <<"error", outcome>>),
                !.issued[Len(run.issued)].outcome = outcome]

\* resolveNodeId, then the facings of the --facing option
CameraSnapStart(option, json, resolved) ==
    /\ cameraSnap.pc = "idle"
    /\ cameraSnap' =
           IF ~resolved
           THEN [cameraSnap EXCEPT !.pc = "failed", !.option = option, !.json = json,
                                   !.exit = 1,
                                   !.log = Append(@, <<"error", "unknown node">>)]
           ELSE IF InvalidFacing(FacingOpt(option))
           THEN [cameraSnap EXCEPT !.pc = "failed", !.option = option, !.json = json,
                                   !.exit = 1,
                                   !.log = Append(@, <<"error", "invalid facing">>)]
           ELSE [cameraSnap EXCEPT !.pc = "loop", !.option = option, !.json = json,
                                   !.facings = Facings(FacingOpt(option))]
    /\ UNCHANGED exceptCameraSnap

\* callGatewayCli("node.invoke", ...) for the next facing
CameraSnapInvoke ==
    /\ cameraSnap.pc = "loop"
    /\ cameraSnap.facings # <<>>
    /\ cameraSnap' =
           [cameraSnap EXCEPT
               !.pc = "awaiting",
               !.issued = Append(@, [command |-> "camera.snap",
                                     facing |-> Head(cameraSnap.facings),
                                     idempotencyKey |-> SnapIdempotencyKey(cameraSnap),
                                     outcome |-> "pending"])]
    /\ UNCHANGED exceptCameraSnap

\* the call returns or throws; the payload is parsed and written to a file
CameraSnapReturn(outcome) ==
    /\ cameraSnap.pc = "awaiting"
    /\ cameraSnap' =
           IF outcome = "ok"
           THEN [cameraSnap EXCEPT
                    !.pc = "loop",
                    !.facings = Tail(@),
                    !.issued[Len(cameraSnap.issued)].outcome = "ok",
                    !.results = Append(@, Head(cameraSnap.facings))]
           ELSE SnapCatch(cameraSnap, outcome)
    /\ UNCHANGED exceptCameraSnap

\* after the loop: one JSON document, or one MEDIA line per result
CameraSnapPrint ==
    /\ cameraSnap.pc = "loop"
    /\ cameraSnap.facings = <<>>
    /\ cameraSnap' =
           [cameraSnap EXCEPT
               !.pc = "done",
               !.log = IF cameraSnap.json
                       THEN Append(@, <<"json", cameraSnap.results>>)
                       ELSE @ \o [i \in 1..Len(cameraSnap.results) |->
                                     <<"MEDIA", cameraSnap.results[i]>>]]
    /\ UNCHANGED exceptCameraSnap

CameraSnapIdle == cameraSnap = NotStarted

\* ---------------------------------------------------- promptGatewayConfig
\* The gateway section of the configure wizard: four selections, two
\* optional text answers, three adjustments, then the config is assembled.
BindOptions == {"loopback", "lan", "tailnet", "auto"}
AuthOptions == {"off", "token", "password"}
TailscaleOptions == {"off", "serve", "funnel"}
\* cfg.gateway.auth before the wizard
NoAuth == [mode |-> "unset", token |-> "unset", password |-> "unset"]
StoredAuths ==
    {NoAuth,
     [mode |-> "off", token |-> "unset", password |-> "unset"],
     [mode |-> "token", token |-> "old-token", password |-> "unset"],
     [mode |-> "password", token |-> "unset", password |-> "old-password"]}
\* text answers after trim(); the password prompt refuses a blank answer
TokenInputs == {"", "typed-token"}
PasswordInputs == {"typed-password"}
GatewayAnswers ==
    [cfgAuth : StoredAuths, bind : BindOptions, authMode : AuthOptions,
     tailscaleMode : TailscaleOptions, resetOnExit : BOOLEAN,
     tokenInput : TokenInputs, password : PasswordInputs]

\* "Tailscale requires bind=loopback."
AdjustedBind(bind, tailscaleMode) ==
    IF tailscaleMode # "off" /\ bind # "loopback" THEN "loopback" ELSE bind

\* Variant: the funnel rule is left out.
AdjustedAuthNoFunnel(authMode, bind, tailscaleMode) ==
    IF authMode = "off" /\ bind # "loopback" THEN "token" ELSE authMode

\* "Non-loopback bind requires auth."  "Tailscale funnel requires password auth."
AdjustedAuth(authMode, bind, tailscaleMode) ==
    LET afterBind == IF authMode = "off" /\ bind # "loopback" THEN "token" ELSE authMode
    IN  IF tailscaleMode = "funnel" /\ afterBind # "password" THEN "password"
        ELSE afterBind

randomToken == "random-token"

promptGatewayConfig(a) ==
    LET bind == AdjustedBind(a.bind, a.tailscaleMode)
        authMode == AdjustedAuth(a.authMode, bind, a.tailscaleMode)
        gatewayToken == IF a.tokenInput = "" THEN randomToken ELSE a.tokenInput
        auth == CASE authMode = "token" ->
                       [a.cfgAuth EXCEPT !.mode = "token", !.token = gatewayToken]
                  [] authMode = "password" ->
                       [a.cfgAuth EXCEPT !.mode = "password", !.password = a.password]
                  [] OTHER -> a.cfgAuth
    IN  [config |->
            [gateway |->
                [mode |-> "local", bind |-> bind, auth |-> auth,
                 tailscale |->
                    [mode |-> a.tailscaleMode,
                     resetOnExit |-> a.tailscaleMode # "off" /\ a.resetOnExit]]],
         token |-> IF authMode = "token" THEN gatewayToken ELSE "unset"]

NotPrompted ==
    [config |->
        [gateway |->
            [mode |-> "unset", bind |-> "unset", auth |-> NoAuth,
             tailscale |-> [mode |-> "unset", resetOnExit |-> FALSE]]],
     token |-> "unset"]

PromptGatewayConfig ==
    /\ gatewayPrompt.returned = NotPrompted
    /\ gatewayPrompt' =
           [gatewayPrompt EXCEPT !.returned = promptGatewayConfig(gatewayPrompt.answers)]
    /\ UNCHANGED exceptGatewayPrompt

GatewayPromptIdle ==
    gatewayPrompt =
        [answers |-> [cfgAuth |-> NoAuth, bind |-> "loopback", authMode |-> "off",
                      tailscaleMode |-> "off", resetOnExit |-> FALSE,
                      tokenInput |-> "", password |-> "typed-password"],
         returned |-> NotPrompted]

\* ------------------------------------------------- applyAuthProfileConfig
\* A JavaScript object is a function on its keys; an absent key is not in
\* the domain.  cfg.auth.order is Nil when undefined, Some(object) otherwise.
ProfileIds == {"a", "b", "c"}
Providers == {"anthropic", "openai"}
Profile(provider, mode, email) == [provider |-> provider, mode |-> mode, email |-> email]
\* cfg.auth.profiles before the call
StoredProfiles ==
    {f \in UNION {[ids -> {Profile("anthropic", "api_key", "unset"),
                           Profile("openai", "oauth", "me@example.org")}] :
                     ids \in SUBSET ProfileIds} :
        \A id \in DOMAIN f :
            id # "a" => f[id] = Profile("anthropic", "api_key", "unset")}
OrderLists == UNION {[1..k -> ProfileIds] : k \in 0..3}
\* cfg.auth.order before the call: undefined, or with / without an entry for
\* either provider
StoredOrders ==
    {Nil}
    \cup {Some(o) : o \in UNION {[ps -> OrderLists] : ps \in SUBSET Providers}}
AuthConfigs ==
    {[profiles |-> f, order |-> o] :
        f \in StoredProfiles,
        o \in {x \in StoredOrders :
                  x = Nil \/ \A pr \in DOMAIN Unwrap(x) :
                                 pr = "openai" => Unwrap(x)[pr] = <<"c">>}}
AuthParams ==
    [profileId : {"a", "b"}, provider : Providers, mode : {"oauth"},
     email : {"unset", "me@example.org"},
     preferProfileFirst : {Nil, Some(TRUE), Some(FALSE)}]

Includes(list, x) == \E i \in 1..Len(list) : list[i] = x
Without(list, x) == SelectSeq(list, LAMBDA profileId : profileId # x)

\* Variant: the profile id is put first without removing its old position.
ReorderKeepsOld(existing, profileId, preferProfileFirst) ==
    IF preferProfileFirst THEN <<profileId>> \o existing ELSE existing

\* reorderedProviderOrder
Reorder(existing, profileId, preferProfileFirst) ==
    IF preferProfileFirst THEN <<profileId>> \o Without(existing, profileId)
    ELSE existing

\* Variant: the profiles object holds the new profile only.
OnlyNewProfile(profiles, params) ==
    [id \in {params.profileId} |-> Profile(params.provider, params.mode, params.email)]

\* { ...cfg.auth?.profiles, [params.profileId]: { provider, mode, email? } }
MergedProfiles(profiles, params) ==
    [id \in DOMAIN profiles \cup {params.profileId} |->
        IF id = params.profileId
        THEN Profile(params.provider, params.mode, params.email)
        ELSE profiles[id]]

applyAuthProfileConfig(auth, params) ==
    LET profiles == MergedProfiles(auth.profiles, params)
        hasExisting ==
            auth.order # Nil /\ params.provider \in DOMAIN Unwrap(auth.order)
        preferProfileFirst == Coalesce(params.preferProfileFirst, TRUE)
        reordered ==
            Reorder(Unwrap(auth.order)[params.provider], params.profileId,
                    preferProfileFirst)
        order ==
            IF hasExisting
            THEN Some([pr \in DOMAIN Unwrap(auth.order) |->
                          IF pr = params.provider
                          THEN IF Includes(reordered, params.profileId)
                               THEN reordered
                               ELSE Append(reordered, params.profileId)
                          ELSE Unwrap(auth.order)[pr]])
            ELSE auth.order
    IN  [profiles |-> profiles, order |-> order]

NoAuthConfig == [profiles |-> <<>>, order |-> Nil]

\* the first call
ApplyAuthProfileConfig ==
    /\ authProfile.applied = 0
    /\ authProfile' =
           [authProfile EXCEPT
               !.applied = 1,
               !.once = applyAuthProfileConfig(authProfile.cfg, authProfile.params),
               !.result = applyAuthProfileConfig(authProfile.cfg, authProfile.params)]
    /\ UNCHANGED exceptAuthProfile

\* the same call on the config the first call returned
ApplyAuthProfileConfigAgain ==
    /\ authProfile.applied = 1
    /\ authProfile' =
           [authProfile EXCEPT
               !.applied = 2,
               !.result = applyAuthProfileConfig(authProfile.result, authProfile.params)]
    /\ UNCHANGED exceptAuthProfile

AuthProfileIdle ==
    authProfile =
        [cfg |-> NoAuthConfig,
         params |-> [profileId |-> "a", provider |-> "anthropic", mode |-> "oauth",
                     email |-> "unset", preferProfileFirst |-> Nil],
         applied |-> 0, once |-> NoAuthConfig, result |-> NoAuthConfig]

\* ------------------------------------------------- control request handler
\* ControlRequestHandler.process: the pause gate, then the handler of the
\* request.  The canvas, camera and screen handlers reach the local node
\* through node.invoke (invokeLocalNode); the settings are the ones the Node
\* Runtime reads.
ControlRequests ==
    {"notify", "ensurePermissions", "status", "rpcStatus", "runShell", "agent",
     "canvasShow", "canvasHide", "canvasEval", "canvasSnapshot", "canvasA2UI",
     "nodeList", "nodeDescribe", "nodeInvoke", "cameraSnap", "cameraClip",
     "screenRecord"}
CanvasRequests == {"canvasShow", "canvasHide", "canvasEval", "canvasSnapshot", "canvasA2UI"}
CameraRequests == {"cameraSnap", "cameraClip"}
\* handlers that begin with guard self.canvasEnabled() / self.cameraEnabled()
CanvasGuarded == {"canvasShow", "canvasEval", "canvasSnapshot", "canvasA2UI"}
CameraGuarded == {"cameraSnap", "cameraClip"}

\* the gateway requests a handler can send first
GatewayRequests(request) ==
    CASE request = "canvasShow" ->
             {<<"node.invoke", CanvasNavigate>>, <<"node.invoke", CanvasShow>>}
      [] request = "canvasHide" -> {<<"node.invoke", CanvasHide>>}
      [] request = "canvasEval" -> {<<"node.invoke", CanvasEvalJS>>}
      [] request = "canvasSnapshot" -> {<<"node.invoke", CanvasSnapshot>>}
      [] request = "canvasA2UI" ->
             {<<"node.invoke", A2UIReset>>, <<"node.invoke", A2UIPush>>,
              <<"node.invoke", A2UIPushJSONL>>}
      [] request = "cameraSnap" -> {<<"node.invoke", CameraSnap>>}
      [] request = "cameraClip" -> {<<"node.invoke", CameraClip>>}
      [] request = "screenRecord" -> {<<"node.invoke", ScreenRecord>>}
      [] request = "nodeInvoke" -> {<<"node.invoke", CameraSnap>>}
      [] request = "nodeList" -> {<<"node.list", <<"-", "-">>>>}
      [] request = "nodeDescribe" -> {<<"node.describe", <<"-", "-">>>>}
      [] OTHER -> {}

Response(ok, message) == [ok |-> ok, message |-> message]
NoControlResponse == Response(TRUE, "none")

\* Variant: status does not look at the pause flag.
StatusAlwaysReady(paused) == Response(TRUE, "ready")

\* case .status
StatusResponse(paused) ==
    IF paused THEN Response(FALSE, "clawdis paused") ELSE Response(TRUE, "ready")

Answered(response, handler) ==
    [control EXCEPT !.pc = "done", !.response = response, !.handler = handler]

process(request) ==
    /\ control.pc = "idle"
    /\ IF control.paused /\ request # "status"
       THEN control' = [Answered(Response(FALSE, "clawdis paused"), "none")
                           EXCEPT !.request = request]
       ELSE IF request = "status"
       THEN control' = [Answered(StatusResponse(control.paused), "none")
                           EXCEPT !.request = request]
       ELSE IF request \in CanvasGuarded /\ ~canvasEnabled
       THEN control' = [Answered(Response(FALSE, "Canvas disabled by user"), request)
                           EXCEPT !.request = request]
       ELSE IF request \in CameraGuarded /\ ~cameraEnabled
       THEN control' = [Answered(Response(FALSE, "Camera disabled by user"), request)
                           EXCEPT !.request = request]
       ELSE IF GatewayRequests(request) # {}
       THEN \E sent \in GatewayRequests(request) :
                control' = [control EXCEPT !.pc = "awaiting", !.request = request,
                                           !.handler = request,
                                           !.sent = Append(@, sent)]
       ELSE \E ok \in BOOLEAN :
                control' = [Answered(Response(ok, "handled"), request)
                               EXCEPT !.request = request]
    /\ UNCHANGED exceptControl

\* the gateway request returns or throws
GatewayReturns(ok) ==
    /\ control.pc = "awaiting"
    /\ control' = Answered(Response(ok, IF ok THEN "handled" ELSE "error"), control.handler)
    /\ UNCHANGED exceptControl

\* the pause switch of the app
SetPaused(paused) ==
    /\ control.pc = "idle"
    /\ control.paused # paused
    /\ control' = [control EXCEPT !.paused = paused]
    /\ UNCHANGED exceptControl

ControlIdle ==
    control = [pc |-> "idle", paused |-> FALSE, request |-> "none", handler |-> "none",
               sent |-> <<>>, response |-> NoControlResponse]

\* ------------------------------------------------------------ resolveNodeId
\* nodes-cli.ts resolveNodeId.  A string is the sequence of its characters,
\* so that trim, normalizeNodeKey, startsWith and length are computed.
LowerCase == [A |-> "a", B |-> "b", C |-> "c", M |-> "m"]
AlphaNumeric == {"a", "b", "c", "d", "e", "f", "m", "z", "0", "1", "2"}
WhiteSpace == {" "}

RECURSIVE TrimStart(_)
TrimStart(s) ==
    IF s # <<>> /\ Head(s) \in WhiteSpace THEN TrimStart(Tail(s)) ELSE s
RECURSIVE TrimEnd(_)
TrimEnd(s) ==
    IF s # <<>> /\ s[Len(s)] \in WhiteSpace THEN TrimEnd(SubSeq(s, 1, Len(s) - 1)) ELSE s
Trim(s) == TrimEnd(TrimStart(s))

toLowerCase(s) ==
    [i \in 1..Len(s) |-> IF s[i] \in DOMAIN LowerCase THEN LowerCase[s[i]] ELSE s[i]]
\* .replace(/[^a-z0-9]+/g, "-")
RECURSIVE SkipOthers(_)
SkipOthers(s) ==
    IF s # <<>> /\ Head(s) \notin AlphaNumeric THEN SkipOthers(Tail(s)) ELSE s
RECURSIVE ReplaceOthers(_)
ReplaceOthers(s) ==
    IF s = <<>> THEN <<>>
    ELSE IF Head(s) \in AlphaNumeric THEN <<Head(s)>> \o ReplaceOthers(Tail(s))
    ELSE <<"-">> \o ReplaceOthers(SkipOthers(s))
\* .replace(/^-+/, "") and .replace(/-+$/, "")
RECURSIVE StripStart(_)
StripStart(s) == IF s # <<>> /\ Head(s) = "-" THEN StripStart(Tail(s)) ELSE s
RECURSIVE StripEnd(_)
StripEnd(s) ==
    IF s # <<>> /\ s[Len(s)] = "-" THEN StripEnd(SubSeq(s, 1, Len(s) - 1)) ELSE s
normalizeNodeKey(value) == StripEnd(StripStart(ReplaceOthers(toLowerCase(value))))

startsWith(s, prefix) ==
    Len(prefix) <= Len(s) /\ SubSeq(s, 1, Len(prefix)) = prefix

\* the node ids, names and addresses of the lists, and the queries
IdAbcdef1 == <<"a", "b", "c", "d", "e", "f", "1">>
IdAbcdef2 == <<"a", "b", "c", "d", "e", "f", "2">>
IdMac == <<"m", "a", "c">>
IdAb == <<"a", "b">>
NameMac == <<"M", "a", "c">>
NameAB == <<"A", " ", "b">>
NameMarks == <<"?">>
Ip12 == <<"1", ".", "2">>
ListedNode(nodeId, displayName, remoteIp) ==
    [nodeId |-> nodeId, displayName |-> displayName, remoteIp |-> remoteIp]
ListedNodes ==
    {ListedNode(IdAbcdef1, Some(NameMac), Some(Ip12)),
     ListedNode(IdAbcdef2, Some(NameAB), Nil),
     ListedNode(IdMac, Nil, Some(Ip12)),
     ListedNode(IdAb, Some(<<>>), Nil),
     ListedNode(IdAbcdef1, Some(NameMarks), Nil)}
FetchedLists ==
    {<<>>} \cup {<<n>> : n \in ListedNodes}
           \cup {<<n, m>> : n \in ListedNodes, m \in ListedNodes}
\* a paired entry of node.pair.list carries more than a listed node
PairedEntry(n) ==
    [nodeId |-> n.nodeId, displayName |-> n.displayName, remoteIp |-> n.remoteIp,
     token |-> "token"]
PairedLists == {[i \in 1..Len(l) |-> PairedEntry(l[i])] : l \in FetchedLists}
Queries ==
    {<<>>, <<" ">>,
     <<"a", "b", "c", "d", "e", "f">>, <<"a", "b", "c", "d", "e">>,
     IdAbcdef1, <<" ">> \o IdAbcdef2 \o <<" ">>,
     IdMac, <<"M", "A", "C">>, Ip12, IdAb,
     <<"a", "-", "b">>, <<"a", " ", "b">>, <<"!">>, <<"z", "z">>}

\* Variant: a prefix of any length matches.
IsMatchAnyPrefix(n, q) ==
    \/ n.nodeId = q
    \/ n.remoteIp = Some(q)
    \/ LET name == Coalesce(n.displayName, <<>>)
       IN name # <<>> /\ normalizeNodeKey(name) = normalizeNodeKey(q)
    \/ startsWith(n.nodeId, q)

\* the filter of nodes.filter
IsMatch(n, q) ==
    \/ n.nodeId = q
    \/ n.remoteIp = Some(q)
    \/ LET name == Coalesce(n.displayName, <<>>)
       IN name # <<>> /\ normalizeNodeKey(name) = normalizeNodeKey(q)
    \/ Len(q) >= 6 /\ startsWith(n.nodeId, q)
RECURSIVE Filter(_, _)
Filter(nodes, q) ==
    IF nodes = <<>> THEN <<>>
    ELSE (IF IsMatch(Head(nodes), q) THEN <<Head(nodes)>> ELSE <<>>)
             \o Filter(Tail(nodes), q)

Resolved(kind, nodeId, message) == [kind |-> kind, nodeId |-> nodeId, message |-> message]
NotResolved == Resolved("none", <<>>, "none")
\* from the filter to the return or the throw
Outcome(nodes, q) ==
    LET found == Filter(nodes, q)
    IN  IF Len(found) = 1 THEN Resolved("returned", found[1].nodeId, "none")
        ELSE IF Len(found) = 0 THEN Resolved("threw", <<>>, "unknown node")
        ELSE Resolved("threw", <<>>, "ambiguous node")

ResolveIdle ==
    resolve = [pc |-> "idle", query |-> <<>>, q |-> <<>>, requests |-> <<>>,
               listed |-> Nil, pairedList |-> Nil, nodes |-> <<>>,
               outcome |-> NotResolved]

\* the call, up to the first gateway request
ResolveNodeId(query) ==
    /\ resolve.pc = "idle"
    /\ LET q == Trim(query)
       IN  IF q = <<>>
           THEN resolve' = [resolve EXCEPT !.pc = "done", !.query = query, !.q = q,
                               !.outcome = Resolved("threw", <<>>, "node required")]
           ELSE resolve' = [resolve EXCEPT !.pc = "node.list", !.query = query, !.q = q,
                               !.requests = <<"node.list">>]
    /\ UNCHANGED exceptResolve

\* node.list answers: parseNodeList, then the filter
NodeListAnswers(list) ==
    /\ resolve.pc = "node.list"
    /\ resolve' = [resolve EXCEPT !.pc = "done", !.listed = Some(list), !.nodes = list,
                                  !.outcome = Outcome(list, resolve.q)]
    /\ UNCHANGED exceptResolve

\* node.list throws: catch, node.pair.list is requested
NodeListFails ==
    /\ resolve.pc = "node.list"
    /\ resolve' = [resolve EXCEPT !.pc = "node.pair.list",
                                  !.requests = Append(@, "node.pair.list")]
    /\ UNCHANGED exceptResolve

\* node.pair.list answers: the paired entries are mapped to nodes
PairListAnswers(list) ==
    /\ resolve.pc = "node.pair.list"
    /\ LET nodes == [i \in 1..Len(list) |->
                        ListedNode(list[i].nodeId, list[i].displayName, list[i].remoteIp)]
       IN  resolve' = [resolve EXCEPT !.pc = "done", !.pairedList = Some(list),
                                      !.nodes = nodes,
                                      !.outcome = Outcome(nodes, resolve.q)]
    /\ UNCHANGED exceptResolve

\* node.pair.list throws too: the error leaves resolveNodeId
PairListFails ==
    /\ resolve.pc = "node.pair.list"
    /\ resolve' = [resolve EXCEPT !.pc = "done",
                                  !.outcome = Resolved("threw", <<>>, "gateway")]
    /\ UNCHANGED exceptResolve

\* ------------------------------------------------------ runConfigureWizard
\* One run of the configure wizard.  A config is the set of the parts it
\* holds; events lists, in order, the prompts and helpers that ran and the
\* writes of the config file.
WizardSections ==
    {"workspace", "model", "gateway", "daemon", "providers", "skills", "health"}
ConfigSections == {"workspace", "model", "gateway", "providers", "skills"}
WizardModes == {"local", "remote"}
SectionOptions == {Nil} \cup {Some(sections) : sections \in SUBSET WizardSections}

\* Variant: the config file is written after the daemon install and the
\* health check.
StepAfterWriteLast(pc) ==
    CASE pc = "workspace" -> "model"
      [] pc = "model" -> "gateway"
      [] pc = "gateway" -> "providers"
      [] pc = "providers" -> "skills"
      [] pc = "skills" -> "daemon"
      [] pc = "daemon" -> "health"
      [] pc = "health" -> "write"
      [] pc = "write" -> "finish"

\* the order of the statements after the selection
StepAfter(pc) ==
    CASE pc = "workspace" -> "model"
      [] pc = "model" -> "gateway"
      [] pc = "gateway" -> "providers"
      [] pc = "providers" -> "skills"
      [] pc = "skills" -> "write"
      [] pc = "write" -> "daemon"
      [] pc = "daemon" -> "health"
      [] pc = "health" -> "finish"

applyWizardMetadata(config) == config \cup {"wizard"}

WizardIdle ==
    wizard = [pc |-> "idle", sections |-> Nil, mode |-> "none", selected |-> {},
              config |-> {}, written |-> <<>>, events |-> <<>>]

\* configureCommand / configureCommandWithSections: snapshot and probes
RunConfigureWizard(sections) ==
    /\ wizard.pc = "idle"
    /\ wizard' = [wizard EXCEPT !.pc = "mode", !.sections = sections, !.config = {"base"}]
    /\ UNCHANGED exceptWizard

\* "Where will the Gateway run?"
SelectMode(mode) ==
    /\ wizard.pc = "mode"
    /\ wizard' = IF mode = "remote"
                 THEN [wizard EXCEPT !.pc = "remote", !.mode = mode]
                 ELSE IF wizard.sections = Nil
                 THEN [wizard EXCEPT !.pc = "select", !.mode = mode]
                 ELSE [wizard EXCEPT !.mode = mode,
                                     !.selected = Unwrap(wizard.sections),
                                     !.pc = IF Unwrap(wizard.sections) = {}
                                            THEN "done" ELSE "workspace"]
    /\ UNCHANGED exceptWizard

\* mode === "remote": the remote gateway is prompted for and written
ConfigureRemote ==
    /\ wizard.pc = "remote"
    /\ LET remoteConfig == applyWizardMetadata(wizard.config \cup {"remote"})
       IN  wizard' = [wizard EXCEPT !.pc = "done", !.config = remoteConfig,
                                    !.written = Append(@, remoteConfig),
                                    !.events = @ \o <<"remote", "write">>]
    /\ UNCHANGED exceptWizard

\* "Select sections to configure"
SelectSections(selected) ==
    /\ wizard.pc = "select"
    /\ wizard' = [wizard EXCEPT !.selected = selected,
                                !.pc = IF selected = {} THEN "done" ELSE "workspace"]
    /\ UNCHANGED exceptWizard

\* if (selected.includes(section)) { nextConfig = ... }
ConfigureSection ==
    /\ wizard.pc \in ConfigSections
    /\ wizard' = IF wizard.pc \in wizard.selected
                 THEN [wizard EXCEPT !.pc = StepAfter(wizard.pc),
                                     !.config = @ \cup {wizard.pc},
                                     !.events = Append(@, wizard.pc)]
                 ELSE [wizard EXCEPT !.pc = StepAfter(wizard.pc)]
    /\ UNCHANGED exceptWizard

\* applyWizardMetadata, writeConfigFile
WriteConfigFile ==
    /\ wizard.pc = "write"
    /\ LET nextConfig == applyWizardMetadata(wizard.config)
       IN  wizard' = [wizard EXCEPT !.pc = StepAfter("write"), !.config = nextConfig,
                                    !.written = Append(@, nextConfig),
                                    !.events = Append(@, "write")]
    /\ UNCHANGED exceptWizard

\* if (selected.includes("daemon")) maybeInstallDaemon
InstallDaemon ==
    /\ wizard.pc = "daemon"
    /\ wizard' = IF "daemon" \in wizard.selected
                 THEN [wizard EXCEPT !.pc = StepAfter("daemon"),
                                     !.events = Append(@, "daemon")]
                 ELSE [wizard EXCEPT !.pc = StepAfter("daemon")]
    /\ UNCHANGED exceptWizard

\* if (selected.includes("health")) healthCommand, its failure caught
HealthCheck ==
    /\ wizard.pc = "health"
    /\ wizard' = IF "health" \in wizard.selected
                 THEN [wizard EXCEPT !.pc = StepAfter("health"),
                                     !.events = Append(@, "health")]
                 ELSE [wizard EXCEPT !.pc = StepAfter("health")]
    /\ UNCHANGED exceptWizard

\* control UI links, "Configure complete."
FinishWizard ==
    /\ wizard.pc = "finish"
    /\ wizard' = [wizard EXCEPT !.pc = "done"]
    /\ UNCHANGED exceptWizard

\* guardCancel: the user cancels one of the wizard's own prompts
CancelWizard ==
    /\ \/ wizard.pc \in {"mode", "select"}
       \/ wizard.pc \in {"workspace", "providers"} /\ wizard.pc \in wizard.selected
       \/ wizard.pc = "daemon" /\ "daemon" \in wizard.selected
                               /\ "gateway" \notin wizard.selected
    /\ wizard' = [wizard EXCEPT !.pc = "cancelled"]
    /\ UNCHANGED exceptWizard

\* ------------------------------------------------------------------- spec
\* Nothing in progress in the gateway, the Node Runtime and the node list.
BaseIdle ==
    /\ pending = {}
    /\ paired = {}
    /\ nextRequestId = 1
    /\ nodeState = [n \in Nodes |-> "Disconnected"]
    /\ nodeToken = [n \in Nodes |-> 0]
    /\ approved = {}
    /\ expired = {}
    /\ reply = NoReply
    /\ invocations = <<>>
    /\ delivered = {}
    /\ settings = NothingStored
    /\ calls = {}
    /\ files = {}
    /\ returned = NoResponse
    /\ nodeListPayload = <<>>
    /\ nodeListResult = NoResult
\* No tool has been started.
ToolsIdle ==
    ScaleIdle /\ CameraSnapIdle /\ GatewayPromptIdle /\ AuthProfileIdle /\ ControlIdle
    /\ ResolveIdle
    /\ WizardIdle

\* A gateway started on an empty pairing store.
Init ==
    /\ pending = {}
    /\ paired = {}
    /\ nextRequestId = 1
    /\ nodeState = [n \in Nodes |-> "Disconnected"]
    /\ nodeToken = [n \in Nodes |-> 0]
    /\ approved = {}
    /\ expired = {}
    /\ reply = NoReply
    /\ invocations = <<>>
    /\ delivered = {}
    /\ settings = NothingStored
    /\ calls = {}
    /\ files = {}
    /\ returned = NoResponse
    /\ nodeListPayload = <<>>
    /\ nodeListResult = NoResult
    /\ ToolsIdle

\* A gateway started on a pairing store that holds both nodes, paired in an
\* earlier run (tokens minted then); two more pairing requests can be created.
StoredToken(n) == IF n = "n1" THEN -1 ELSE -2
InitPaired ==
    /\ pending = {}
    /\ paired = {[nodeId |-> n, token |-> StoredToken(n)] : n \in Nodes}
    /\ nextRequestId = MaxRequests - 1
    /\ nodeState = [n \in Nodes |-> "Disconnected"]
    /\ nodeToken = [n \in Nodes |-> StoredToken(n)]
    /\ approved = {}
    /\ expired = {}
    /\ reply = NoReply
    /\ invocations = <<>>
    /\ delivered = {}
    /\ settings = NothingStored
    /\ calls = {}
    /\ files = {}
    /\ returned = NoResponse
    /\ nodeListPayload = <<>>
    /\ nodeListResult = NoResult
    /\ ToolsIdle

\* The pairing lifecycle: nodes saying hello, the operator's CLI, TTL, revoke.
NextPairing ==
    \/ \E n \in Nodes : NodeConnect(n)
    \/ \E n \in Nodes : RequestPairing(n)
    \/ \E n \in Nodes : TransportClose(n)
    \/ \E r \in 1..MaxRequests : NodesApprove(r)
    \/ \E r \in 1..MaxRequests : NodesReject(r)
    \/ \E req \in pending : ExpirePending(req)
    \/ \E n \in Nodes : Revoke(n)

SpecPairing == Init /\ [][NextPairing]_vars

\* Routing: paired nodes that come and go, one of them revoked and re-paired,
\* while the macOS control handler invokes commands on them.
RevokedNodes == {"n1"}
NextRouting ==
    \/ \E n \in Nodes : NodeConnect(n)
    \/ \E n \in Nodes : RequestPairing(n)
    \/ \E n \in Nodes : TransportClose(n)
    \/ \E req \in pending : NodesApprove(req.requestId)
    \/ \E n \in RevokedNodes : Revoke(n)
    \/ \E c \in Callers, n \in Nodes : HandleNodeInvoke(c, n, "canvas.eval")
    \/ \E i \in Corrs : NodeComplete(i)

SpecRouting == InitPaired /\ [][NextRouting]_vars

\* Idempotent invocation on one node: CLI calls that reuse or omit the
\* idempotency key, answered by a response, a timeout or connection loss, and
\* retention expiry.
DedupeNodes == {"n1"}
InvokeInputs ==
    {<<"n1", "canvas.eval", <<"user", 1>>>>,
     <<"n1", "camera.snap", <<"user", 1>>>>,
     <<"n1", "canvas.eval", NoKey>>}

NextDedupe ==
    \/ \E n \in DedupeNodes : NodeConnect(n)
    \/ \E n \in DedupeNodes : RequestPairing(n)
    \/ \E n \in DedupeNodes : TransportClose(n)
    \/ \E c \in Callers, in \in InvokeInputs : NodesInvoke(c, in[1], in[2], in[3])
    \/ \E i \in Corrs : NodeComplete(i)
    \/ \E i \in Corrs : Timeout(i)
    \/ \E i \in Corrs : ExpireRetention(i)

SpecDedupe == InitPaired /\ [][NextDedupe]_vars

\* The Node Runtime serving one invocation after the other, while the user
\* changes the settings.
SettingKeys == {"canvas", "camera"}
NextInvoke ==
    \/ \E key \in SettingKeys, value \in {"true", "false"} : SetSetting(key, value)
    \/ \E id \in CallIds, command \in RuntimeCommands, params \in ParamsKinds :
           calls = {} /\ HandleInvoke(id, command, params)
    \/ \E id \in CallIds, out \in {"returned", "throws", "notReady"} :
           ProviderReturns(id, out)
    \/ \E id \in CallIds,
          post \in {"ok", "caught", "notReady", "unreadable", "decodeFails", "encodeFails"} :
           HandleInvokeResume(id, post)

SpecInvoke == Init /\ [][NextInvoke]_vars

\* The Node Runtime receiving capture invocations while earlier ones are
\* still being served.
NextCapture ==
    \/ \E value \in {"true", "false"} : SetSetting("camera", value)
    \/ \E id \in CallIds, command \in CaptureCommands : HandleInvoke(id, command, "valid")
    \/ \E id \in CallIds, out \in {"returned", "throws"} : ProviderReturns(id, out)
    \/ \E id \in CallIds, post \in {"ok", "caught", "unreadable", "encodeFails"} :
           HandleInvokeResume(id, post)

SpecCapture == Init /\ [][NextCapture]_vars

\* The control handler building a node list from any gateway payload.
InitList ==
    /\ pending = {}
    /\ paired = {}
    /\ nextRequestId = 1
    /\ nodeState = [n \in Nodes |-> "Disconnected"]
    /\ nodeToken = [n \in Nodes |-> 0]
    /\ approved = {}
    /\ expired = {}
    /\ reply = NoReply
    /\ invocations = <<>>
    /\ delivered = {}
    /\ settings = NothingStored
    /\ calls = {}
    /\ files = {}
    /\ returned = NoResponse
    /\ nodeListPayload \in Payloads
    /\ nodeListResult = NoResult
    /\ ToolsIdle

NextList == BuildNodeListResult

SpecList == InitList /\ [][NextList]_vars

\* Scaling an image of any size under any maxWidth.
InitScale ==
    /\ BaseIdle
    /\ snapshotArgs \in SnapshotInputs
    /\ snapshotImage = NoImage
    /\ CameraSnapIdle
    /\ GatewayPromptIdle
    /\ AuthProfileIdle
    /\ ControlIdle
    /\ ResolveIdle
    /\ WizardIdle

NextScale == ScaleImage \/ EncodeCanvasSnapshot

SpecScale == InitScale /\ [][NextScale]_vars

\* One run of `nodes camera snap` with any options and any gateway answers.
InitCameraSnap ==
    /\ BaseIdle /\ ScaleIdle /\ CameraSnapIdle /\ GatewayPromptIdle /\ AuthProfileIdle
    /\ ControlIdle
    /\ ResolveIdle
    /\ WizardIdle

NextCameraSnap ==
    \/ \E option \in FacingOptions, json \in BOOLEAN, resolved \in BOOLEAN :
           CameraSnapStart(option, json, resolved)
    \/ CameraSnapInvoke
    \/ \E outcome \in SnapOutcomes : CameraSnapReturn(outcome)
    \/ CameraSnapPrint

SpecCameraSnap == InitCameraSnap /\ [][NextCameraSnap]_vars

\* promptGatewayConfig under every combination of answers.
InitGatewayPrompt ==
    /\ BaseIdle
    /\ ScaleIdle
    /\ CameraSnapIdle
    /\ \E a \in GatewayAnswers : gatewayPrompt = [answers |-> a, returned |-> NotPrompted]
    /\ AuthProfileIdle
    /\ ControlIdle
    /\ ResolveIdle
    /\ WizardIdle

NextGatewayPrompt == PromptGatewayConfig

SpecGatewayPrompt == InitGatewayPrompt /\ [][NextGatewayPrompt]_vars

\* applyAuthProfileConfig, once and twice, on any config and params.
InitAuthProfile ==
    /\ BaseIdle
    /\ ScaleIdle
    /\ CameraSnapIdle
    /\ GatewayPromptIdle
    /\ \E cfg \in AuthConfigs, params \in AuthParams :
           authProfile = [cfg |-> cfg, params |-> params, applied |-> 0,
                          once |-> NoAuthConfig, result |-> NoAuthConfig]
    /\ ControlIdle
    /\ ResolveIdle
    /\ WizardIdle

NextAuthProfile == ApplyAuthProfileConfig \/ ApplyAuthProfileConfigAgain

SpecAuthProfile == InitAuthProfile /\ [][NextAuthProfile]_vars

\* One control request under any pause flag and any stored settings.
InitControl == BaseIdle /\ ToolsIdle

NextControl ==
    \/ \E key \in SettingKeys, value \in {"true", "false"} :
           control.pc = "idle" /\ SetSetting(key, value)
    \/ \E paused \in BOOLEAN : SetPaused(paused)
    \/ \E request \in ControlRequests : process(request)
    \/ \E ok \in BOOLEAN : GatewayReturns(ok)

SpecControl == InitControl /\ [][NextControl]_vars

\* One call of resolveNodeId against any answers of the gateway.
InitResolve == BaseIdle /\ ToolsIdle

NextResolve ==
    \/ \E query \in Queries : ResolveNodeId(query)
    \/ \E list \in FetchedLists : NodeListAnswers(list)
    \/ NodeListFails
    \/ \E list \in PairedLists : PairListAnswers(list)
    \/ PairListFails

SpecResolve == InitResolve /\ [][NextResolve]_vars

\* One run of the configure wizard under any options and answers.
InitWizard == BaseIdle /\ ToolsIdle

NextWizard ==
    \/ \E sections \in SectionOptions : RunConfigureWizard(sections)
    \/ \E mode \in WizardModes : SelectMode(mode)
    \/ ConfigureRemote
    \/ \E selected \in SUBSET WizardSections : SelectSections(selected)
    \/ ConfigureSection
    \/ WriteConfigFile
    \/ InstallDaemon
    \/ HealthCheck
    \/ FinishWizard
    \/ CancelWizard

SpecWizard == InitWizard /\ [][NextWizard]_vars

\* The whole gateway.
Next ==
    \/ NextPairing
    \/ \E c \in Callers, n \in Nodes, cmd \in Commands, k \in UserKeys \cup {NoKey} :
           NodesInvoke(c, n, cmd, k)
    \/ \E c \in Callers, n \in Nodes, cmd \in Commands : HandleNodeInvoke(c, n, cmd)
    \/ \E i \in Corrs : NodeComplete(i)
    \/ \E i \in Corrs : Timeout(i)
    \/ \E i \in Corrs : ExpireRetention(i)

Spec == Init /\ [][Next]_vars

\* ================================================================= claims
NewDispatch == Len(invocations') = Len(invocations) + 1
Dispatched == invocations'[Len(invocations')]
Recipients == {d[1] : d \in delivered'}
Triple(n, cmd, k) == [nodeId |-> n, command |-> cmd, idempotencyKey |-> k]

\* C1: a `nodes invoke` call whose (nodeId, command, idempotencyKey) triple is
\* already in flight reaches the router with that very triple, causes no second
\* dispatch and is attached to the in-flight invocation; no two in-flight
\* invocations ever share a triple; and when an invocation terminates every
\* caller attached to it receives the same single envelope.
C1_KeyForwarded ==
    \A c \in Callers, in \in InvokeInputs :
        (NewDispatch /\ in[3] # NoKey /\ NodesInvoke(c, in[1], in[2], in[3])) =>
            SameTriple(Dispatched, Triple(in[1], in[2], in[3]))
C1_Attached ==
    \A c \in Callers, in \in InvokeInputs :
        (/\ InFlightFor(Triple(in[1], in[2], in[3])) # {}
         /\ CanCall(c)
         /\ NodesInvoke(c, in[1], in[2], in[3])) =>
            /\ Len(invocations') = Len(invocations)
            /\ delivered' = {}
            /\ \E i \in InFlight :
                /\ SameTriple(invocations[i], Triple(in[1], in[2], in[3]))
                /\ invocations'[i] = [invocations[i] EXCEPT !.callers = @ \cup {c}]
C1_OneInFlightPerTriple ==
    \A i, j \in 1..Len(invocations') :
        (/\ invocations'[i].phase = "inflight"
         /\ invocations'[j].phase = "inflight"
         /\ SameTriple(invocations'[i], invocations'[j])) => i = j
C1_SameEnvelope ==
    \A i \in Corrs :
        (invocations[i].phase = "inflight" /\ invocations'[i].phase # "inflight") =>
            \A c \in invocations[i].callers :
                {d \in delivered' : d[1] = c} = {<<c, invocations'[i].envelope>>}
C1_InFlightDedupe ==
    [][C1_KeyForwarded /\ C1_Attached /\ C1_OneInFlightPerTriple /\ C1_SameEnvelope]_vars

\* C1 witness: two callers were attached to one invocation and both have just
\* been handed its envelope, the result of the single execution.
C1_Witness ==
    \E i \in Corrs :
        /\ invocations[i].phase = "retained"
        /\ invocations[i].envelope = OkEnvelope(i)
        /\ delivered = {<<c, OkEnvelope(i)>> : c \in Callers}
        /\ Len(invocations) = 1

\* A retry of a triple whose invocation has completed and is retained, on a
\* node that is paired and connected, is answered with the cached envelope and
\* dispatches nothing.
C2_CachedWhileRoutable ==
    \A c \in Callers, in \in InvokeInputs :
        (/\ RetainedFor(Triple(in[1], in[2], in[3])) # {}
         /\ PairedByNode(in[1]) # {}
         /\ nodeState[in[1]] = "Connected"
         /\ CanCall(c)
         /\ NodesInvoke(c, in[1], in[2], in[3])) =>
            /\ invocations' = invocations
            /\ \E i \in RetainedFor(Triple(in[1], in[2], in[3])) :
                   delivered' = {<<c, invocations[i].envelope>>}

\* C2 as stated: a retry inside the retention window returns the cached
\* envelope without a dispatch, and over any sequence of retries a triple is
\* dispatched at most once.
C2_OnceEver ==
    NewDispatch => \A i \in Corrs : ~SameTriple(invocations[i], Dispatched)
C2_OncePerWindow ==
    NewDispatch =>
        \A i \in Corrs :
            SameTriple(invocations[i], Dispatched) => invocations[i].phase = "expired"
C3_FailFast ==
    \A c \in Callers, n \in Nodes :
        (CanCall(c) /\ HandleNodeInvoke(c, n, "canvas.eval")) =>
            /\ PairedByNode(n) = {} =>
                   /\ delivered' = {<<c, ErrEnvelope("NotPaired")>>}
                   /\ invocations' = invocations
            /\ (PairedByNode(n) # {} /\ nodeState[n] # "Connected") =>
                   /\ delivered' = {<<c, ErrEnvelope("NodeOffline")>>}
                   /\ invocations' = invocations
C3_DispatchRoutable ==
    NewDispatch =>
        /\ PairedByNode(Dispatched.nodeId) # {}
        /\ nodeState[Dispatched.nodeId] = "Connected"
C3_InFlightRoutable ==
    \A i \in 1..Len(invocations') :
        invocations'[i].phase = "inflight" =>
            /\ \E p \in paired' : p.nodeId = invocations'[i].nodeId
            /\ nodeState'[invocations'[i].nodeId] = "Connected"
C3_RoutableOnly == [][C3_FailFast /\ C3_DispatchRoutable /\ C3_InFlightRoutable]_vars

\* C3 witness: an invocation was forwarded to a routable node and answered;
\* now one node is paired and not connected, the other has no record, and the
\* last call was refused NodeOffline.
C3_Witness ==
    /\ \E n \in Nodes : PairedByNode(n) = {}
    /\ \E n \in Nodes : PairedByNode(n) # {} /\ nodeState[n] # "Connected"
    /\ \E c \in Callers : delivered = {<<c, ErrEnvelope("NodeOffline")>>}
    /\ Len(invocations) = 1
    /\ invocations[1].phase = "retained"
    /\ invocations[1].envelope = OkEnvelope(1)

\* C4: when the timer of an invocation expires, each caller attached to it
\* receives exactly one envelope, ok=false with code Timeout, and the
\* correlation id is no longer tracked; the node-side operation goes on, and
\* its late response is discarded: nothing is delivered and the outcome kept
\* for the invocation does not change.  A terminated invocation is never
\* resolved again.
C4_TimeoutEnvelope ==
    \A i \in Corrs :
        Timeout(i) =>
            /\ invocations[i].callers # {}
            /\ delivered' = {<<c, ErrEnvelope("Timeout")>> : c \in invocations[i].callers}
            /\ invocations'[i].phase = "retained"
            /\ invocations'[i].callers = {}
            /\ invocations'[i].nodeDone = invocations[i].nodeDone
C4_LateDiscarded ==
    \A i \in Corrs :
        (invocations[i].phase # "inflight" /\ NodeComplete(i)) =>
            /\ delivered' = {}
            /\ invocations'[i].envelope = invocations[i].envelope
            /\ invocations'[i].phase = invocations[i].phase
            /\ invocations'[i].nodeDone
C4_ResolvedOnce ==
    \A i \in Corrs :
        invocations[i].phase # "inflight" =>
            /\ invocations'[i].phase # "inflight"
            /\ invocations'[i].callers = {}
            /\ invocations'[i].envelope \in {invocations[i].envelope, NoEnvelope}
C4_TimeoutThenDiscard == [][C4_TimeoutEnvelope /\ C4_LateDiscarded /\ C4_ResolvedOnce]_vars

\* C4 witness: the invocation timed out, the node finished afterwards, and the
\* late response was dropped: the kept envelope is still Timeout.
C4_Witness ==
    \E i \in Corrs :
        /\ invocations[i].phase = "retained"
        /\ invocations[i].envelope = ErrEnvelope("Timeout")
        /\ invocations[i].nodeDone
        /\ delivered = {}

\* C5: when the transport of a Connected node closes, every invocation in
\* flight on that node is resolved NodeOffline and each of its callers gets
\* that envelope; invocations of other nodes are left as they are and their
\* callers get nothing.  No invocation stays in flight on a node that is not
\* Connected.
C5_ResolvedOffline ==
    \A n \in Nodes :
        (nodeState[n] = "Connected" /\ TransportClose(n)) =>
            \A i \in Corrs :
                IF invocations[i].nodeId = n
                THEN invocations[i].phase = "inflight" =>
                        /\ invocations'[i].phase = "retained"
                        /\ invocations'[i].envelope = ErrEnvelope("NodeOffline")
                        /\ \A c \in invocations[i].callers :
                               <<c, ErrEnvelope("NodeOffline")>> \in delivered'
                ELSE /\ invocations'[i] = invocations[i]
                     /\ invocations[i].callers \cap Recipients = {}
C5_NonePendingOffline ==
    \A i \in 1..Len(invocations') :
        invocations'[i].phase = "inflight" =>
            nodeState'[invocations'[i].nodeId] = "Connected"
C5_DisconnectResolves == [][C5_ResolvedOffline /\ C5_NonePendingOffline]_vars

\* C5 witness: invocations were in flight on both nodes; one node dropped,
\* its caller was answered NodeOffline, the other invocation is in flight.
C5_Witness ==
    \E i, j \in Corrs :
        /\ invocations[i].phase = "retained"
        /\ invocations[i].envelope = ErrEnvelope("NodeOffline")
        /\ invocations[j].phase = "inflight"
        /\ invocations[j].nodeId # invocations[i].nodeId
        /\ nodeState[invocations[i].nodeId] = "Disconnected"
        /\ \E c \in Callers : delivered = {<<c, ErrEnvelope("NodeOffline")>>}

C7_Step ==
    \A r \in 1..MaxRequests :
        NodesApprove(r) =>
            \A req \in PendingById(r) :
                /\ reply'.result = "ok"
                /\ reply'.exit = 0
                /\ reply'.nodeId = req.nodeId
                /\ \E p \in listPaired' : p.nodeId = req.nodeId /\ p.token = req.requestId
                /\ \A q \in listPending' : q.requestId # r
C7_ApproveRoundTrip == [][C7_Step]_vars

\* C7 witness: a second approval has just succeeded.
C7_Witness ==
    /\ reply.method = "node.pair.approve"
    /\ reply.result = "ok"
    /\ \E p \in listPaired : p.nodeId = reply.nodeId /\ p.token = reply.requestId
    /\ PendingById(reply.requestId) = {}
    /\ Cardinality(approved) = 2

\* C8: `nodes approve` or `nodes reject` of a requestId that is not pending
\* (never created, or already approved, rejected or expired) fails with
\* NotFound, the CLI exits 1, and the pending and paired sets are unchanged;
\* a resolved requestId never becomes pending again.
C8_NotFound ==
    \A r \in 1..MaxRequests :
        (PendingById(r) = {} /\ (NodesApprove(r) \/ NodesReject(r))) =>
            /\ reply'.result = "NotFound"
            /\ reply'.exit = 1
            /\ pending' = pending
            /\ paired' = paired
C8_ResolvedStays ==
    \A r \in 1..MaxRequests :
        (r < nextRequestId /\ PendingById(r) = {}) => \A q \in pending' : q.requestId # r
C8_ResolvedNotFound == [][C8_NotFound /\ C8_ResolvedStays]_vars

\* C8 witness: a request was approved, and a reject of the same requestId has
\* just failed with NotFound.
C8_Witness ==
    /\ reply.method = "node.pair.reject"
    /\ reply.result = "NotFound"
    /\ reply.exit = 1
    /\ \E a \in approved : a.requestId = reply.requestId

\* C9: revoke deletes the PairedNode record and leaves the node not
\* Connected; no node is Connected without a record; invoke on a node without
\* a record answers NotPaired; and a record appears again only by a
\* successful approval of a pairing request of that node.
C9_Revoked ==
    \A n \in Nodes :
        Revoke(n) =>
            /\ \A p \in paired' : p.nodeId # n
            /\ nodeState'[n] # "Connected"
            /\ \A i \in Corrs : invocations[i].nodeId = n => invocations'[i].phase # "inflight"
C9_ConnectedIsPaired ==
    \A n \in Nodes :
        nodeState'[n] = "Connected" => \E p \in paired' : p.nodeId = n
C9_NotPairedUntilApproved ==
    \A n \in Nodes :
        PairedByNode(n) = {} =>
            /\ \A c \in Callers :
                   (CanCall(c) /\ HandleNodeInvoke(c, n, "canvas.eval")) =>
                       delivered' = {<<c, ErrEnvelope("NotPaired")>>}
            /\ (\E p \in paired' : p.nodeId = n) =>
                   /\ reply'.method = "node.pair.approve"
                   /\ reply'.result = "ok"
                   /\ reply'.nodeId = n
                   /\ \E req \in pending : req.nodeId = n /\ req.requestId = reply'.requestId
C9_RevokeUnpairs == [][C9_Revoked /\ C9_ConnectedIsPaired /\ C9_NotPairedUntilApproved]_vars

\* C9 witness: a node that was Connected with an invocation in flight has been
\* revoked; the invocation was resolved, and an invoke on the node has just
\* been answered NotPaired.
C9_Witness ==
    \E n \in Nodes, c \in Callers, i \in Corrs :
        /\ PairedByNode(n) = {}
        /\ invocations[i].nodeId = n
        /\ invocations[i].envelope = ErrEnvelope("NodeOffline")
        /\ delivered = {<<c, ErrEnvelope("NotPaired")>>}

\* C10: a node enters Connecting only from Disconnected, and PendingApproval
\* or Connected only from Connecting; nothing is forwarded to, or in flight
\* on, a node in PendingApproval; when the transport of a Connected node
\* closes the node is Disconnected and the paired set is unchanged.
C10_Transitions ==
    \A n \in Nodes :
        /\ (nodeState'[n] = "Connecting" /\ nodeState[n] # "Connecting") =>
               nodeState[n] = "Disconnected"
        /\ (nodeState'[n] \in {"PendingApproval", "Connected"}
                /\ nodeState[n] # nodeState'[n]) =>
               nodeState[n] = "Connecting"
        /\ nodeState[n] = "Disconnected" =>
               nodeState'[n] \in {"Disconnected", "Connecting"}
C10_NoInvokeToPending ==
    /\ NewDispatch => nodeState[Dispatched.nodeId] # "PendingApproval"
    /\ \A i \in 1..Len(invocations') :
           invocations'[i].phase = "inflight" =>
               nodeState'[invocations'[i].nodeId] # "PendingApproval"
    /\ \A c \in Callers, n \in Nodes :
           (nodeState[n] = "PendingApproval" /\ HandleNodeInvoke(c, n, "canvas.eval")) =>
               /\ invocations' = invocations
               /\ \E d \in delivered' : d[1] = c /\ ~d[2].ok
C10_CloseKeepsRecord ==
    \A n \in Nodes :
        (nodeState[n] = "Connected" /\ TransportClose(n)) =>
            /\ nodeState'[n] = "Disconnected"
            /\ paired' = paired
C10_NodeStateMachine ==
    [][C10_Transitions /\ C10_NoInvokeToPending /\ C10_CloseKeepsRecord]_vars

\* C10 witness: a node that holds a PairedNode record waits in
\* PendingApproval (a repair), an invoke on it has just been refused, and the
\* other node went from Connected back to Disconnected keeping its record.
C10_Witness ==
    \E n, m \in Nodes, c \in Callers :
        /\ nodeState[n] = "PendingApproval"
        /\ HasPairedRecord(n)
        /\ delivered = {<<c, ErrEnvelope("NodeOffline")>>}
        /\ m # n
        /\ nodeState[m] = "Disconnected"
        /\ HasPairedRecord(m)
        /\ \E i \in Corrs : invocations[i].nodeId = m

\* C11: requestPairing for a node that has a PairedNode and presents its
\* stored token connects the node and creates no PendingPairingRequest; in
\* every other case exactly one PendingPairingRequest with a fresh requestId
\* is created for the node, with isRepair true exactly when a PairedNode
\* record of that nodeId exists; the paired set is untouched either way.
C11_Step ==
    \A n \in Nodes :
        (nodeState[n] = "Connecting" /\ RequestPairing(n)) =>
            IF \E p \in paired : p.nodeId = n /\ p.token = nodeToken[n]
            THEN /\ pending' = pending
                 /\ paired' = paired
                 /\ nodeState'[n] = "Connected"
            ELSE /\ paired' = paired
                 /\ nodeState'[n] = "PendingApproval"
                 /\ \E r \in pending' :
                        /\ r \notin pending
                        /\ pending' = pending \cup {r}
                        /\ r.nodeId = n
                        /\ \A q \in pending : q.requestId # r.requestId
                        /\ r.isRepair = (\E p \in paired : p.nodeId = n)
C11_RequestPairing == [][C11_Step]_vars

\* C11 witness: one node reconnected with its stored token and is Connected
\* with nothing pending for it, while the other, holding a stale record, has
\* a repair request pending.
C11_Witness ==
    \E n, m \in Nodes :
        /\ nodeState[n] = "Connected"
        /\ \A r \in pending : r.nodeId # n
        /\ nodeState[m] = "PendingApproval"
        /\ \E r \in pending : r.nodeId = m /\ r.isRepair
        /\ \E p \in paired : p.nodeId = m /\ p.token # nodeToken[m]

\* C12: a pending request that reaches its TTL is removed from the pending
\* set and nothing else of the registry changes (no PairedNode is created),
\* which is the effect of a reject of the same request; an expired requestId
\* is never pending or approved again, and approve or reject of it fails with
\* NotFound leaving the pending and paired sets unchanged.
C12_ExpireAsReject ==
    \A req \in pending :
        (ExpirePending(req) \/ NodesReject(req.requestId)) =>
            /\ pending' = pending \ {req}
            /\ paired' = paired
            /\ approved' = approved
            /\ nodeToken' = nodeToken
            /\ \A n \in Nodes : n # req.nodeId => nodeState'[n] = nodeState[n]
            /\ nodeState'[req.nodeId] \in {nodeState[req.nodeId], "Disconnected"}
C12_ExpiredStays ==
    \A r \in expired' :
        /\ \A q \in pending' : q.requestId # r
        /\ \A a \in approved' : a.requestId # r
        /\ \A p \in paired' : p.token # r
C12_ExpiredNotFound ==
    \A r \in expired :
        (NodesApprove(r) \/ NodesReject(r)) =>
            /\ reply'.result = "NotFound"
            /\ reply'.exit = 1
            /\ pending' = pending
            /\ paired' = paired
C12_Expiry == [][C12_ExpireAsReject /\ C12_ExpiredStays /\ C12_ExpiredNotFound]_vars

\* C12 witness: a request expired, its node is not paired, and an approve of
\* the expired requestId has just failed with NotFound.
C12_Witness ==
    /\ reply.method = "node.pair.approve"
    /\ reply.result = "NotFound"
    /\ reply.requestId \in expired
    /\ paired = {}
    /\ pending = {}

\* C13: handleInvoke of a canvas.* command while the stored canvas setting is
\* false, or of camera.snap / camera.clip while the camera setting is false
\* or not stored, returns ok=false with code unavailable and the message that
\* names the setting; no provider call is started and no file is created.
C13_Disabled(command) ==
    \/ command[1] = "canvas" /\ settings.canvas = "false"
    \/ command \in {CameraSnap, CameraClip} /\ settings.camera \in {"unset", "false"}
C13_Message(command) ==
    IF command[1] = "canvas" THEN "CANVAS_DISABLED: enable Canvas in Settings"
    ELSE "CAMERA_DISABLED: enable Camera in Settings"
C13_Step ==
    \A id \in CallIds, command \in RuntimeCommands, params \in ParamsKinds :
        (C13_Disabled(command) /\ HandleInvoke(id, command, params)) =>
            /\ returned'.id = id
            /\ ~returned'.ok
            /\ returned'.error = [code |-> "unavailable", message |-> C13_Message(command)]
            /\ calls' = calls
            /\ files' = files
C13_DisabledUnavailable == [][C13_Step]_vars

\* C13 witness: with nothing stored for the camera, a camera command has just
\* been refused; nothing runs and no file exists.
C13_Witness ==
    /\ settings.camera = "unset"
    /\ ~returned.ok
    /\ returned.error.message = "CAMERA_DISABLED: enable Camera in Settings"
    /\ calls = {}
    /\ files = {}

\* C14 as stated: handleInvoke of an enabled command that requires params,
\* with params missing or not decodable, returns ok=false with code
\* invalidRequest and starts no provider call.
C14_Enabled(command) ==
    /\ command[1] = "canvas" => settings.canvas # "false"
    /\ command[1] = "camera" => settings.camera = "true"
C14_Step ==
    \A id \in CallIds, command \in DecodeTry, params \in {"missing", "malformed"} :
        (C14_Enabled(command) /\ HandleInvoke(id, command, params)) =>
            /\ returned'.id = id
            /\ ~returned'.ok
            /\ returned'.error.code = "invalidRequest"
            /\ calls' = calls
C14_DecodeFailureInvalidRequest == [][C14_Step]_vars

\* C15 as stated: every command that is not supported is answered
\* invalidRequest "unknown command", whatever the settings.
C15_UnknownCommand(id) ==
    /\ returned'.id = id
    /\ ~returned'.ok
    /\ returned'.error =
           [code |-> "invalidRequest", message |-> "INVALID_REQUEST: unknown command"]
    /\ calls' = calls
    /\ files' = files
C15_StepAnySetting ==
    \A id \in CallIds, command \in UnknownCommands, params \in ParamsKinds :
        HandleInvoke(id, command, params) => C15_UnknownCommand(id)
C15_UnknownAlways == [][C15_StepAnySetting]_vars

\* C15 (amended): a command that is not supported is answered invalidRequest
\* "unknown command" whatever the camera setting, unless it starts with
\* "canvas." while canvas is disabled: then the canvas gate answers
\* unavailable first.  No provider call is started either way.
C15_Step ==
    \A id \in CallIds, command \in UnknownCommands, params \in ParamsKinds :
        HandleInvoke(id, command, params) =>
            IF command[1] = "canvas" /\ settings.canvas = "false"
            THEN /\ returned'.id = id
                 /\ ~returned'.ok
                 /\ returned'.error.code = "unavailable"
                 /\ calls' = calls
                 /\ files' = files
            ELSE C15_UnknownCommand(id)
C15_UnknownUnlessGated == [][C15_Step]_vars

\* C15 witness: with canvas disabled and no camera setting stored, a command
\* was answered "unknown command".
C15_Witness ==
    /\ settings = [canvas |-> "false", camera |-> "unset"]
    /\ returned.error =
           [code |-> "invalidRequest", message |-> "INVALID_REQUEST: unknown command"]
    /\ calls = {}

\* C16: when handleInvoke returns from canvas.snapshot, camera.clip or
\* screen.record after the provider handed back a temporary file, the file is
\* gone, on every exit path; no file outlives the call that owns it.
C16_Step ==
    \A c \in calls :
        (c.path # 0 /\ CallOf(c.id)' = {}) =>
            /\ c.command \in ArtifactCommands
            /\ returned'.id = c.id
            /\ c.path \notin files'
C16_NoOrphan == \A f \in files' : \E c \in calls' : c.path = f
C16_ArtifactRemoved == [][C16_Step /\ C16_NoOrphan]_vars

\* C16 witness: a snapshot file was produced, the image could not be decoded,
\* and after the error response no file is left.
C16_Witness ==
    /\ returned.error.message = "canvas snapshot decode failed"
    /\ files = {}
    /\ calls = {}

\* C17: every handleInvoke call ends with one BridgeInvokeResponse carrying
\* the id of its request, on every path (gate, decode failure, provider
\* error, post-processing error, success); a response has an error with code
\* and message exactly when ok is false; once it has returned the call is
\* over.
C17_WellFormed(r, id) ==
    /\ r.id = id
    /\ r.payload # "thrown"
    /\ r.ok <=> r.error = NoError
    /\ ~r.ok => r.error.code # "none" /\ r.error.message # "none"
C17_Begin ==
    \A id \in CallIds, command \in RuntimeCommands, params \in ParamsKinds :
        HandleInvoke(id, command, params) =>
            IF CallOf(id)' = {} THEN C17_WellFormed(returned', id)
            ELSE returned' = NoResponse
C17_End ==
    \A c \in calls :
        IF CallOf(c.id)' = {} THEN C17_WellFormed(returned', c.id)
        ELSE returned' = NoResponse \/ returned'.id # c.id
C17_EveryPath ==
    \A c \in calls :
        c.pc = "resumed" =>
            /\ PostOutcomes(c) # {}
            /\ \A post \in PostOutcomes(c) : C17_WellFormed(LateResponse(c, post), c.id)
C17_OneResponse == [][C17_Begin /\ C17_End /\ C17_EveryPath]_vars

\* C17 witness: the provider threw, and the call has just returned the error
\* as a response with the request's id.
C17_Witness ==
    /\ returned.id \in CallIds
    /\ ~returned.ok
    /\ returned.error = [code |-> "unavailable", message |-> "caught"]
    /\ CallOf(returned.id) = {}

\* C18 as stated: at no time are two captures on the same physical resource
\* (camera, screen) executing on one Node Runtime.
C18_NoOverlappingCapture ==
    \A resource \in {"camera", "screen"} : Cardinality(Capturing(resource)) <= 1

\* C19 as stated: the nodes of the result are the input nodes in ascending
\* case-sensitive order of displayName (nodeId when absent), and that order
\* is the same for every ordering of the same input nodes.
C19_Ascending ==
    /\ Range(nodeListResult.nodes) = {NodeListNode(n) : n \in Range(nodeListPayload)}
    /\ Len(nodeListResult.nodes) = Len(nodeListPayload)
    /\ \A i, j \in 1..Len(nodeListResult.nodes) :
           i < j => ~StringLess(SortKey(nodeListResult.nodes[j]),
                                SortKey(nodeListResult.nodes[i]))
C19_OnlyFromSet ==
    \A p \in Rearrangements(nodeListPayload) :
        \A q \in SortedByKey([i \in 1..Len(p) |-> NodeListNode(p[i])]) :
            q = nodeListResult.nodes
C19_OrderFromSetOnly == nodeListResult # NoResult => C19_Ascending /\ C19_OnlyFromSet

\* C20: connectedNodeIds holds exactly the ids of the input nodes whose
\* connected flag is true, pairedNodeIds exactly those whose paired flag is
\* true (a missing flag counts as false); each list has no duplicates and is
\* strictly ascending by id, whatever the order of nodes.
C20_ExactlySorted(ids, wanted) ==
    /\ Range(ids) = wanted
    /\ \A i, j \in 1..Len(ids) : i < j => StringLess(ids[i], ids[j])
C20_IdLists ==
    nodeListResult # NoResult =>
        /\ C20_ExactlySorted(nodeListResult.connectedNodeIds,
               {n.nodeId : n \in {m \in Range(nodeListPayload) : m.connected = Some(TRUE)}})
        /\ C20_ExactlySorted(nodeListResult.pairedNodeIds,
               {n.nodeId : n \in {m \in Range(nodeListPayload) : m.paired = Some(TRUE)}})

\* C20 witness: the nodes come out n3, n2, n1 by name; n3 and n1 are
\* connected and listed n1, n3; n1's paired flag is missing and only n2 is
\* listed as paired.
C20_Witness ==
    /\ nodeListResult # NoResult
    /\ NodeIdsOf(nodeListResult.nodes) = <<<<"n", "3">>, <<"n", "2">>, <<"n", "1">>>>
    /\ nodeListResult.connectedNodeIds = <<<<"n", "1">>, <<"n", "3">>>>
    /\ nodeListResult.pairedNodeIds = <<<<"n", "2">>>>
    /\ \E i \in 1..Len(nodeListPayload) :
           nodeListPayload[i].nodeId = <<"n", "1">> /\ nodeListPayload[i].paired = Nil

\* C21: scaleImage changes the image only when maxWidth is given, positive
\* and smaller than the source width; then the result is maxWidth wide and
\* sourceHeight * maxWidth / sourceWidth high; otherwise the source size is
\* kept.  canvas.snapshot scales the same way under its effective maxWidth.
C21_Expected(image, maxWidth) ==
    IF maxWidth # Nil /\ Unwrap(maxWidth) > 0 /\ image.width > Unwrap(maxWidth)
    THEN /\ snapshotImage.size.width = Unwrap(maxWidth)
         /\ RatEq(snapshotImage.size.height,
                  Rat(image.height[1] * Unwrap(maxWidth), image.height[2] * image.width))
    ELSE snapshotImage.size = image
C21_ScaleOnlyWhenWider ==
    /\ snapshotImage.by = "scaleImage" =>
           C21_Expected(snapshotArgs.image, snapshotArgs.maxWidth)
    /\ snapshotImage.by = "canvas.snapshot" =>
           C21_Expected(snapshotArgs.image,
                        SnapshotMaxWidth(snapshotArgs.maxWidth, snapshotArgs.format))

\* C21 witness: a 1000x800 image scaled under maxWidth 500 is 500x400.
C21_Witness ==
    /\ snapshotArgs.image = NSSize(1000, Rat(800, 1))
    /\ snapshotArgs.maxWidth = Some(500)
    /\ snapshotImage.by = "scaleImage"
    /\ snapshotImage.size.width = 500
    /\ RatEq(snapshotImage.size.height, Rat(400, 1))

\* C22: with facing both (the default) the run issues camera.snap for front,
\* then, only after that call has returned successfully, for back, under two
\* different idempotency keys; it finishes only after both, prints MEDIA
\* lines only when both succeeded (two of them), and when the first call
\* fails no second one is issued and the run ends with exit status 1.
C22_MediaLines == {i \in 1..Len(cameraSnap.log) : cameraSnap.log[i][1] = "MEDIA"}
C22_BothFacings ==
    (cameraSnap.pc # "idle" /\ FacingOpt(cameraSnap.option) = "both") =>
        LET issued == cameraSnap.issued IN
        /\ Len(issued) <= 2
        /\ \A i \in 1..Len(issued) :
               /\ issued[i].command = "camera.snap"
               /\ issued[i].facing = <<"front", "back">>[i]
               /\ i < Len(issued) => issued[i].outcome = "ok"
        /\ \A i, j \in 1..Len(issued) :
               issued[i].idempotencyKey = issued[j].idempotencyKey => i = j
        /\ cameraSnap.pc = "done" =>
               Len(issued) = 2 /\ \A i \in 1..2 : issued[i].outcome = "ok"
        /\ C22_MediaLines # {} =>
               /\ Cardinality(C22_MediaLines) = 2
               /\ cameraSnap.pc = "done"
               /\ cameraSnap.exit = 0
        /\ (cameraSnap.pc = "done" /\ ~cameraSnap.json) => Cardinality(C22_MediaLines) = 2
        /\ (Len(issued) >= 1 /\ issued[1].outcome \notin {"ok", "pending"}) =>
               /\ Len(issued) = 1
               /\ cameraSnap.pc = "failed"
               /\ cameraSnap.exit = 1
               /\ cameraSnap.facings = <<"front", "back">>

\* C22 witness: default facing, both calls succeeded, two MEDIA lines.
C22_Witness ==
    /\ cameraSnap.option = "unset"
    /\ cameraSnap.pc = "done"
    /\ Len(cameraSnap.issued) = 2
    /\ Cardinality(C22_MediaLines) = 2

\* C23: when the provider of a supported, enabled command throws, the call
\* ends with ok=false, code unavailable and the thrown error's message
\* ("caught" stands for its localizedDescription), under the request's id.
C23_Step ==
    \A c \in calls :
        (c.pc = "resumed" /\ c.provider = "throws" /\ CallOf(c.id)' = {}) =>
            /\ c.command \in SupportedCommands
            /\ returned' = errorResponse(c.id, "unavailable", "caught")
C23_ProviderFailure == [][C23_Step]_vars

\* C23 witness: with the camera enabled, the second request ended with the
\* provider's failure.
C23_Witness ==
    /\ settings.camera = "true"
    /\ returned = errorResponse(2, "unavailable", "caught")

\* C24: the config returned by promptGatewayConfig has bind = loopback
\* whenever the Tailscale mode is not off, auth mode token or password
\* whenever bind is not loopback, and auth mode password with a non-empty
\* password whenever the Tailscale mode is funnel.
C24_GatewayConstraints ==
    gatewayPrompt.returned # NotPrompted =>
        LET gateway == gatewayPrompt.returned.config.gateway IN
        /\ gateway.tailscale.mode = gatewayPrompt.answers.tailscaleMode
        /\ gateway.tailscale.mode # "off" => gateway.bind = "loopback"
        /\ gateway.bind # "loopback" => gateway.auth.mode \in {"token", "password"}
        /\ gateway.tailscale.mode = "funnel" =>
               /\ gateway.auth.mode = "password"
               /\ gateway.auth.password \notin {"unset", ""}

\* C24 witness: LAN bind, auth off and funnel were answered; the config has
\* loopback bind and password auth.
C24_Witness ==
    /\ gatewayPrompt.answers.bind = "lan"
    /\ gatewayPrompt.answers.authMode = "off"
    /\ gatewayPrompt.answers.tailscaleMode = "funnel"
    /\ gatewayPrompt.returned # NotPrompted
    /\ gatewayPrompt.returned.config.gateway.bind = "loopback"
    /\ gatewayPrompt.returned.config.gateway.auth.mode = "password"

\* C25: when cfg.auth.order is undefined or has no entry for params.provider,
\* the returned auth.order is the input's, unchanged; auth.profiles holds
\* the input's profiles plus params.profileId, every other profile as it was.
C25_ProfilesGain ==
    LET before == authProfile.cfg.profiles
        after == authProfile.once.profiles
        params == authProfile.params
    IN  /\ DOMAIN after = DOMAIN before \cup {params.profileId}
        /\ after[params.profileId].provider = params.provider
        /\ after[params.profileId].mode = params.mode
        /\ \A id \in DOMAIN before : id # params.profileId => after[id] = before[id]
C25_NoEntry ==
    \/ authProfile.cfg.order = Nil
    \/ authProfile.params.provider \notin DOMAIN Unwrap(authProfile.cfg.order)
C25_OrderUntouched ==
    (authProfile.applied >= 1 /\ C25_NoEntry) =>
        /\ authProfile.once.order = authProfile.cfg.order
        /\ C25_ProfilesGain

\* C25 witness: the order has an entry for the other provider only; after
\* the call it is the same object, and the new profile b joined profile a.
C25_Witness ==
    /\ authProfile.applied >= 1
    /\ authProfile.params.provider = "anthropic"
    /\ authProfile.params.profileId = "b"
    /\ authProfile.cfg.order # Nil
    /\ DOMAIN Unwrap(authProfile.cfg.order) = {"openai"}
    /\ authProfile.once.order = authProfile.cfg.order
    /\ DOMAIN authProfile.cfg.profiles = {"a"}
    /\ DOMAIN authProfile.once.profiles = {"a", "b"}

\* C26: when cfg.auth.order has an entry for params.provider, the returned
\* entry contains params.profileId and the other ids in their old relative
\* order; with preferProfileFirst true or absent the id comes first and
\* occurs once; with preferProfileFirst false the old entry is kept and the
\* id appended only when absent; entries of other providers are unchanged;
\* a second call with the same arguments returns what the first returned.
C26_Count(list, x) == Cardinality({i \in 1..Len(list) : list[i] = x})
C26_Entry ==
    LET params == authProfile.params
        existing == Unwrap(authProfile.cfg.order)[params.provider]
        after == Unwrap(authProfile.once.order)
        entry == after[params.provider]
    IN  /\ DOMAIN after = DOMAIN Unwrap(authProfile.cfg.order)
        /\ \A pr \in DOMAIN after :
               pr # params.provider => after[pr] = Unwrap(authProfile.cfg.order)[pr]
        /\ Includes(entry, params.profileId)
        /\ Without(entry, params.profileId) = Without(existing, params.profileId)
        /\ IF Coalesce(params.preferProfileFirst, TRUE)
           THEN entry[1] = params.profileId /\ C26_Count(entry, params.profileId) = 1
           ELSE IF Includes(existing, params.profileId) THEN entry = existing
           ELSE entry = Append(existing, params.profileId)
C26_OrderMaintained ==
    /\ (authProfile.applied >= 1 /\ ~C25_NoEntry) =>
           authProfile.once.order # Nil /\ C26_Entry
    /\ authProfile.applied = 2 => authProfile.result = authProfile.once

\* C26 witness: the entry b, a, c became a, b, c for profile a, and the
\* second call changed nothing.
C26_Witness ==
    /\ authProfile.applied = 2
    /\ authProfile.params.profileId = "a"
    /\ authProfile.params.provider = "anthropic"
    /\ authProfile.params.preferProfileFirst = Nil
    /\ authProfile.cfg.order # Nil
    /\ "anthropic" \in DOMAIN Unwrap(authProfile.cfg.order)
    /\ Unwrap(authProfile.cfg.order)["anthropic"] = <<"b", "a", "c">>
    /\ Unwrap(authProfile.result.order)["anthropic"] = <<"a", "b", "c">>

\* C27: while paused, every request, status included, is answered ok=false
\* "clawdis paused", no handler runs and nothing is sent to the gateway;
\* when not paused, status is answered ok=true "ready".
C27_PauseGate ==
    control.pc # "idle" =>
        /\ control.paused =>
               /\ control.pc = "done"
               /\ control.response = Response(FALSE, "clawdis paused")
               /\ control.handler = "none"
               /\ control.sent = <<>>
        /\ (~control.paused /\ control.request = "status") =>
               /\ control.pc = "done"
               /\ control.response = Response(TRUE, "ready")

\* C27 witness: status was asked while paused and refused.
C27_Witness ==
    /\ control.paused
    /\ control.request = "status"
    /\ control.response = Response(FALSE, "clawdis paused")

\* C28 as stated: with canvas disabled every canvas control request, and
\* with camera disabled cameraSnap and cameraClip, is answered ok=false and
\* no node.invoke is sent.
C28_Refused ==
    /\ control.sent = <<>>
    /\ control.pc = "done"
    /\ ~control.response.ok
C28_DisabledSendsNothing ==
    (control.pc # "idle" /\ ~control.paused) =>
        /\ (control.request \in CanvasRequests /\ ~canvasEnabled) => C28_Refused
        /\ (control.request \in CameraRequests /\ ~cameraEnabled) => C28_Refused

\* C29: resolveNodeId returns a node id only when exactly one node of the
\* fetched list matches the query (exact nodeId, exact remoteIp, normalized
\* displayName, or a query of at least 6 characters that the nodeId starts
\* with), and it returns the id of that node; no match fails with "unknown
\* node", two or more with "ambiguous node", an empty query with "node
\* required"; the list is the answer of node.list, and the paired entries of
\* node.pair.list only when node.list failed.
C29_Matches(n, q) ==
    \/ n.nodeId = q
    \/ n.remoteIp # Nil /\ Unwrap(n.remoteIp) = q
    \/ /\ n.displayName \notin {Nil, Some(<<>>)}
       /\ normalizeNodeKey(Unwrap(n.displayName)) = normalizeNodeKey(q)
    \/ /\ Len(q) >= 6
       /\ Len(q) <= Len(n.nodeId)
       /\ \A i \in 1..Len(q) : n.nodeId[i] = q[i]
C29_Matching == {i \in 1..Len(resolve.nodes) : C29_Matches(resolve.nodes[i], resolve.q)}
C29_FromTheRightList ==
    IF resolve.listed # Nil
    THEN /\ resolve.requests = <<"node.list">>
         /\ resolve.nodes = Unwrap(resolve.listed)
    ELSE /\ resolve.requests = <<"node.list", "node.pair.list">>
         /\ resolve.pairedList # Nil =>
                /\ Len(resolve.nodes) = Len(Unwrap(resolve.pairedList))
                /\ \A i \in 1..Len(resolve.nodes) :
                       \A field \in {"nodeId", "displayName", "remoteIp"} :
                           resolve.nodes[i][field] = Unwrap(resolve.pairedList)[i][field]
C29_ExactlyOneMatch ==
    resolve.pc = "done" =>
        IF Trim(resolve.query) = <<>>
        THEN /\ resolve.outcome = Resolved("threw", <<>>, "node required")
             /\ resolve.requests = <<>>
        ELSE /\ C29_FromTheRightList
             /\ (resolve.listed # Nil \/ resolve.pairedList # Nil) =>
                    CASE Cardinality(C29_Matching) = 1 ->
                             /\ resolve.outcome.kind = "returned"
                             /\ \A i \in C29_Matching :
                                    resolve.outcome.nodeId = resolve.nodes[i].nodeId
                      [] Cardinality(C29_Matching) = 0 ->
                             resolve.outcome = Resolved("threw", <<>>, "unknown node")
                      [] OTHER ->
                             resolve.outcome = Resolved("threw", <<>>, "ambiguous node")
             /\ (resolve.listed = Nil /\ resolve.pairedList = Nil) =>
                    resolve.outcome.kind = "threw"

\* C29 witness: node.list failed, and of the two paired nodes only one
\* starts with the six characters of the query.
C29_Witness ==
    /\ resolve.pc = "done"
    /\ resolve.requests = <<"node.list", "node.pair.list">>
    /\ Len(resolve.nodes) = 2
    /\ Len(resolve.q) = 6
    /\ resolve.outcome = Resolved("returned", IdAbcdef2, "none")

\* C30: one run of runConfigureWizard writes the config file at most once:
\* never when no section is selected; once, with the remote gateway
\* configuration and no section, daemon install or health check, in remote
\* mode; in local mode once, after every selected config section was
\* applied and before the daemon install and the health check.
C30_Position(event) ==
    IF \E i \in 1..Len(wizard.events) : wizard.events[i] = event
    THEN CHOOSE i \in 1..Len(wizard.events) : wizard.events[i] = event
    ELSE 0
C30_Ran == {wizard.events[i] : i \in 1..Len(wizard.events)}
C30_WrittenOnce ==
    /\ Len(wizard.written) <= 1
    /\ Cardinality({i \in 1..Len(wizard.events) : wizard.events[i] = "write"})
           = Len(wizard.written)
    /\ \A event \in {"daemon", "health"} :
           event \in C30_Ran =>
               /\ C30_Position("write") > 0
               /\ C30_Position("write") < C30_Position(event)
    /\ \A section \in ConfigSections :
           section \in C30_Ran /\ "write" \in C30_Ran =>
               C30_Position(section) < C30_Position("write")
    /\ wizard.pc = "done" =>
           CASE wizard.mode = "remote" ->
                    /\ wizard.written = <<{"base", "remote", "wizard"}>>
                    /\ wizard.events = <<"remote", "write">>
             [] wizard.selected = {} ->
                    /\ wizard.written = <<>>
                    /\ wizard.events = <<>>
             [] OTHER ->
                    /\ wizard.written =
                           <<{"base", "wizard"} \cup (wizard.selected \cap ConfigSections)>>
                    /\ C30_Ran = wizard.selected \cup {"write"}

\* C30 witness: a local run with a config section, the daemon and the health
\* check selected has finished.
C30_Witness ==
    /\ wizard.pc = "done"
    /\ wizard.mode = "local"
    /\ {"gateway", "skills", "daemon", "health"} \subseteq wizard.selected
    /\ Len(wizard.written) = 1

====
